---- MODULE Spec2Model ----
(***************************************************************************)
(* A model of the definition-graph engine of go-types-to-jsonschema:       *)
(* the Definition type, the pruner (definition_pruner.go), the flattener   *)
(* (flattener.go), the embedder (embed.go), mergeDefs (utils.go) and the   *)
(* stages of Options.Generate that sequence them.                          *)
(*                                                                         *)
(* Go pointers are modelled by a heap: a sequence of Definition records,   *)
(* a *Definition being an index into it and nil being 0.  A Go map is a    *)
(* function from its keys; a nil map and an empty map are not told apart   *)
(* (the engine only ranges over maps and reads their length).  A string    *)
(* that the code splits on "/" (a $ref) is the sequence of its segments,   *)
(* the empty string being <<>>; other strings are TLA+ strings.            *)
(***************************************************************************)
EXTENDS Integers, Sequences, FiniteSets, TLC

VARIABLES
    heap,               \* the Definition objects allocated so far
    defs,               \* schema.Definitions / pruner.definitions: name -> *Definition
    startingTypes,      \* the keys of the startingTypes map
    ignoreUnknownTypes, \* Prune's parameter
    queue,              \* Prune's local queue
    visitedDefs,        \* Prune's local visitedDefs (its result when it returns)
    ret,                \* where the running Prune returns to
    todo,               \* the keys the running range loop has not visited yet
    before,             \* history: the graph as it was when the running stage began
    Flatten,            \* op.Flatten: referenced output (true) or embedded output (false)
    out,                \* what was written to the output file
    rhs,                \* mergeDefs: its second parameter
    pkgExternalTypes,   \* parseTypesInPackage: name -> list of TypeReference
    fileExternalRefs,   \* parseTypesInPackage: the external references of the file merged next
    report,             \* what checkDefinitions printed about its comparison
    fetched,            \* the calls of parseTypesInPackage for other packages so far
    parsed,             \* history: pkgDefs as the files of the package gave it
    pc,                 \* position of the run
    diag                \* the diagnostic of a panic: <<message, name>>

vars == <<heap, defs, startingTypes, ignoreUnknownTypes, queue, visitedDefs, ret, todo, before, Flatten, out, rhs,
          pkgExternalTypes, fileExternalRefs, report, fetched, parsed, pc, diag>>

-----------------------------------------------------------------------------
(* Bounds and input alphabets *)

\* the longest allOf list of a generated definition
MaxAllOf == 2

Names == {"Person", "Address", "Car"}

NoDiag == <<"", "">>

-----------------------------------------------------------------------------
(* Helpers: orders of a set, sequences *)

Orders(S) == {s \in [1..Cardinality(S) -> S] : \A i, j \in 1..Cardinality(S) : s[i] = s[j] => i = j}

RECURSIVE SetToSeq(_)
SetToSeq(S) == IF S = {} THEN <<>> ELSE LET x == CHOOSE y \in S : TRUE IN <<x>> \o SetToSeq(S \ {x})

\* the values of a list or a map
Range(f) == {f[x] : x \in DOMAIN f}

EmptyMap == [k \in {} |-> 0]

\* no output file was written
NoOutput == [written |-> FALSE, defs |-> EmptyMap]

-----------------------------------------------------------------------------
(* The Definition type (types.go) *)

MapFields == {"Definitions", "Properties"}
ArrayFields == {"AllOf", "AnyOf", "OneOf"}
SingleFields == {"AdditionalItems", "Items", "Not", "Media", "AdditionalProperties"}

\* The zero Definition, new(Definition): the fields the engine reads or writes.
Definition == [Ref |-> <<>>, Type |-> "", Description |-> "", Required |-> <<>>,
                Definitions |-> EmptyMap, Properties |-> EmptyMap,
                AllOf |-> <<>>, AnyOf |-> <<>>, OneOf |-> <<>>,
                AdditionalItems |-> 0, Items |-> 0, Not |-> 0, Media |-> 0,
                AdditionalProperties |-> 0]

\* TypeReference{typeName, packageName}
TypeReference(typeName, packageName) == [TypeName |-> typeName, PackageName |-> packageName]

defPrefix == <<"#", "definitions">>

\* getDefLink: defPrefix + resourceName
getDefLink(resourceName) == defPrefix \o <<resourceName>>

\* getNameFromURL: the last segment of strings.Split(url, "/")
getNameFromURL(url) == url[Len(url)]

-----------------------------------------------------------------------------
(* Building a heap from definition terms.  A term is a Definition whose     *)
(* child fields hold terms instead of pointers: a map of terms, a sequence  *)
(* of terms, and <<>> or <<term>> for a single child.                       *)

Term == [Definition EXCEPT !.AdditionalItems = <<>>, !.Items = <<>>, !.Not = <<>>,
                            !.Media = <<>>, !.AdditionalProperties = <<>>]

TRef(name) == [Term EXCEPT !.Ref = getDefLink(name)]
TType(t) == [Term EXCEPT !.Type = t]

\* term base with term t added at position pos (key: the map key, for a map field)
WithChild(base, pos, key, t) ==
    IF pos \in MapFields THEN [base EXCEPT ![pos] = (key :> t) @@ @]
    ELSE IF pos \in ArrayFields THEN [base EXCEPT ![pos] = Append(@, t)]
    ELSE [base EXCEPT ![pos] = <<t>>]

\* the child slots of a term, in a fixed order
Slots(t) ==
    LET mapSlots(f) == LET ks == SetToSeq(DOMAIN t[f])
                       IN [i \in 1..Len(ks) |-> [f |-> f, k |-> ks[i], i |-> 0, t |-> t[f][ks[i]]]]
        arrSlots(f) == [i \in 1..Len(t[f]) |-> [f |-> f, k |-> "", i |-> i, t |-> t[f][i]]]
        oneSlot(f) == [i \in 1..Len(t[f]) |-> [f |-> f, k |-> "", i |-> 0, t |-> t[f][1]]]
    IN mapSlots("Definitions") \o mapSlots("Properties")
       \o arrSlots("AllOf") \o arrSlots("AnyOf") \o arrSlots("OneOf")
       \o oneSlot("AdditionalItems") \o oneSlot("Items") \o oneSlot("Not")
       \o oneSlot("Media") \o oneSlot("AdditionalProperties")

RECURSIVE Alloc(_, _)
RECURSIVE AllocAll(_, _, _)

\* allocate the terms of slots one after the other; ids: the pointers so far
AllocAll(h, slots, ids) ==
    IF Len(ids) = Len(slots) THEN [h |-> h, ids |-> ids]
    ELSE LET r == Alloc(h, slots[Len(ids) + 1].t)
         IN AllocAll(r.h, slots, Append(ids, r.id))

\* allocate term t (children first): the new heap and the pointer to t's object
Alloc(h, t) ==
    LET slots == Slots(t)
        r == AllocAll(h, slots, <<>>)
        at(f, k, i) == r.ids[CHOOSE n \in 1..Len(slots) :
                                slots[n].f = f /\ slots[n].k = k /\ slots[n].i = i]
        mapOf(f) == [k \in DOMAIN t[f] |-> at(f, k, 0)]
        arrOf(f) == [i \in 1..Len(t[f]) |-> at(f, "", i)]
        oneOf(f) == IF t[f] = <<>> THEN 0 ELSE at(f, "", 0)
        node == [Ref |-> t.Ref, Type |-> t.Type, Description |-> t.Description,
                 Required |-> t.Required,
                 Definitions |-> mapOf("Definitions"), Properties |-> mapOf("Properties"),
                 AllOf |-> arrOf("AllOf"), AnyOf |-> arrOf("AnyOf"), OneOf |-> arrOf("OneOf"),
                 AdditionalItems |-> oneOf("AdditionalItems"), Items |-> oneOf("Items"),
                 Not |-> oneOf("Not"), Media |-> oneOf("Media"),
                 AdditionalProperties |-> oneOf("AdditionalProperties")]
    IN [h |-> Append(r.h, node), id |-> Len(r.h) + 1]

RECURSIVE BuildGraph(_, _, _)
\* the graph (heap and name map) of a map of terms, g: name -> term
BuildGraph(g, names, acc) ==
    IF names = <<>> THEN acc
    ELSE LET r == Alloc(acc.heap, g[Head(names)])
         IN BuildGraph(g, Tail(names),
                       [heap |-> r.h, defs |-> (Head(names) :> r.id) @@ acc.defs])

Graph(g) == BuildGraph(g, SetToSeq(DOMAIN g), [heap |-> <<>>, defs |-> EmptyMap])

-----------------------------------------------------------------------------
(* The pruner (definition_pruner.go).  processDefinition returns the list   *)
(* of names referenced below a definition; ranging over a Go map visits its *)
(* keys in an unspecified order, so each operator yields the set of lists   *)
(* the code can return.                                                     *)

RECURSIVE processDefinition(_, _)
RECURSIVE processDefinitionList(_, _)

\* the concatenations of processDefinition over the pointers of ids, in order
processDefinitionList(h, ids) ==
    IF ids = <<>> THEN {<<>>}
    ELSE {a \o b : a \in processDefinition(h, Head(ids)), b \in processDefinitionList(h, Tail(ids))}

processDefinitionMap(h, defMap) ==
    UNION {processDefinitionList(h, [i \in 1..Len(ord) |-> defMap[ord[i]]]) :
               ord \in Orders(DOMAIN defMap)}

processDefinitionArray(h, defArray) == processDefinitionList(h, defArray)

\* (mutant) processDefinition without the descent into Items
prunedSingles_NoItems(def) == <<def.AdditionalItems, def.Not, def.Media>>

\* the single children processDefinition descends into, lines 73-76, in order
prunedSingles(def) == <<def.AdditionalItems, def.Items, def.Not, def.Media>>

processDefinition(h, id) ==
    IF id = 0 THEN {<<>>}
    ELSE LET def == h[id]
             own == IF def.Ref # <<>> THEN <<getNameFromURL(def.Ref)>> ELSE <<>>
         IN {own \o a \o b \o c \o d \o e \o f :
                a \in processDefinitionMap(h, def.Definitions),
                b \in processDefinitionMap(h, def.Properties),
                c \in processDefinitionArray(h, def.AllOf),
                d \in processDefinitionArray(h, def.AnyOf),
                e \in processDefinitionArray(h, def.OneOf),
                f \in processDefinitionList(h, prunedSingles(def))}

\* Prune, lines 27-32: the queue starts with the starting types, in map order
PruneBegin ==
    /\ pc = "Prune"
    /\ \E q \in Orders(startingTypes) : queue' = q
    /\ visitedDefs' = {}
    /\ pc' = "bfs"
    /\ UNCHANGED <<heap, defs, startingTypes, ignoreUnknownTypes, ret, todo, before, diag, Flatten, out, rhs, pkgExternalTypes, fileExternalRefs, report, fetched, parsed>>

\* (mutant) a name that was visited already is put back at the end of the queue
PruneSkipVisited_Requeues ==
    /\ pc = "bfs"
    /\ queue # <<>>
    /\ Head(queue) \in visitedDefs
    /\ queue' = Append(Tail(queue), Head(queue))
    /\ UNCHANGED <<heap, defs, startingTypes, ignoreUnknownTypes, visitedDefs, ret, todo, before, pc, diag, Flatten, out, rhs, pkgExternalTypes, fileExternalRefs, report, fetched, parsed>>

\* An iteration of the loop of Prune, lines 36-41: the name was visited already
PruneSkipVisited ==
    /\ pc = "bfs"
    /\ queue # <<>>
    /\ Head(queue) \in visitedDefs
    /\ queue' = Tail(queue)
    /\ UNCHANGED <<heap, defs, startingTypes, ignoreUnknownTypes, visitedDefs, ret, todo, before, pc, diag, Flatten, out, rhs, pkgExternalTypes, fileExternalRefs, report, fetched, parsed>>

\* (mutant) strict mode skips a name without definition as tolerant mode does
PruneUnknown_StrictSkips ==
    /\ pc = "bfs"
    /\ queue # <<>>
    /\ Head(queue) \notin visitedDefs
    /\ Head(queue) \notin DOMAIN defs
    /\ queue' = Tail(queue)
    /\ UNCHANGED <<heap, defs, startingTypes, ignoreUnknownTypes, visitedDefs, ret, todo, before, pc, diag, Flatten, out, rhs, pkgExternalTypes, fileExternalRefs, report, fetched, parsed>>

\* An iteration of the loop of Prune, lines 36-51: the name has no definition
PruneUnknown ==
    /\ pc = "bfs"
    /\ queue # <<>>
    /\ Head(queue) \notin visitedDefs
    /\ Head(queue) \notin DOMAIN defs
    /\ queue' = Tail(queue)
    /\ IF ignoreUnknownTypes
       THEN UNCHANGED <<pc, diag>>
       ELSE pc' = "panic" /\ diag' = <<"Unknown type", Head(queue)>>
    /\ UNCHANGED <<heap, defs, startingTypes, ignoreUnknownTypes, visitedDefs, ret, todo, before, Flatten, out, rhs, pkgExternalTypes, fileExternalRefs, report, fetched, parsed>>

\* An iteration of the loop of Prune, lines 36-54: the name is marked and the
\* names its definition refers to are appended to the queue
PruneExpand ==
    /\ pc = "bfs"
    /\ queue # <<>>
    /\ Head(queue) \notin visitedDefs
    /\ Head(queue) \in DOMAIN defs
    /\ visitedDefs' = visitedDefs \cup {Head(queue)}
    /\ \E more \in processDefinition(heap, defs[Head(queue)]) : queue' = Tail(queue) \o more
    /\ UNCHANGED <<heap, defs, startingTypes, ignoreUnknownTypes, ret, todo, before, pc, diag, Flatten, out, rhs, pkgExternalTypes, fileExternalRefs, report, fetched, parsed>>

\* (mutant) Prune deletes the definitions it has not visited before it returns
PruneReturn_Deletes ==
    /\ pc = "bfs"
    /\ queue = <<>>
    /\ defs' = [key \in DOMAIN defs \cap visitedDefs |-> defs[key]]
    /\ pc' = ret
    /\ UNCHANGED <<heap, startingTypes, ignoreUnknownTypes, queue, visitedDefs, ret, todo, before, diag, Flatten, out, rhs, pkgExternalTypes, fileExternalRefs, report, fetched, parsed>>

\* Prune, line 57: the queue is empty, visitedDefs is returned
PruneReturn ==
    /\ pc = "bfs"
    /\ queue = <<>>
    /\ pc' = ret
    /\ UNCHANGED <<heap, defs, startingTypes, ignoreUnknownTypes, queue, visitedDefs, ret, todo, before, diag, Flatten, out, rhs, pkgExternalTypes, fileExternalRefs, report, fetched, parsed>>

\* the caller's loop after getReachableTypes (Generate): every key that is
\* not in the returned set is deleted
DeleteUnreachable ==
    /\ pc = "delete"
    /\ defs' = [key \in DOMAIN defs \cap visitedDefs |-> defs[key]]
    /\ pc' = "checkDefinitions"
    /\ UNCHANGED <<heap, startingTypes, ignoreUnknownTypes, queue, visitedDefs, ret, todo, before, diag, Flatten, out, rhs, pkgExternalTypes, fileExternalRefs, report, fetched, parsed>>

-----------------------------------------------------------------------------
(* Prune as a function under test: any graph, entry set and mode *)

Positions == MapFields \cup ArrayFields \cup SingleFields

\* a definition with one child, a reference to name x, at position pos
Edge(pos, x) == WithChild(Term, pos, "p", TRef(x))

\* <<>> stands for a name without definition, <<t>> for the definition t
PrunePerson ==
    {<<Term>>} \cup {<<TRef(x)>> : x \in {"Address", "Car"}}
    \cup {<<Edge(pos, x)>> : pos \in Positions, x \in Names}
    \cup {<<WithChild(Term, pos, "p", Edge(in, "Address"))>> :
              pos \in Positions, in \in {"Properties", "Items", "AdditionalProperties"}}
    \cup {<<WithChild(Edge(pos, "Address"), in, "q", TRef("Car"))>> :
              pos \in Positions, in \in {"Properties", "AllOf", "Definitions"}}

PruneAddress ==
    {<<>>, <<Term>>, <<TRef("Car")>>, <<Edge("Properties", "Person")>>}
    \cup {<<Edge(pos, "Car")>> : pos \in Positions}

PruneCar == {<<>>, <<Term>>, <<Edge("Properties", "Address")>>}

TermMap(p, a, c) ==
    LET ch == [n \in Names |-> IF n = "Person" THEN p ELSE IF n = "Address" THEN a ELSE c]
    IN [n \in {m \in Names : ch[m] # <<>>} |-> ch[n][1]]

PruneGraphs == {Graph(TermMap(p, a, c)) : p \in PrunePerson, a \in PruneAddress, c \in PruneCar}

InitPrune ==
    /\ \E g \in PruneGraphs : heap = g.heap /\ defs = g.defs
    /\ startingTypes \in {{"Person"}, {"Person", "Car"}, {"Car"}}
    /\ ignoreUnknownTypes \in BOOLEAN
    /\ queue = <<>>
    /\ visitedDefs = {}
    /\ ret = "delete"
    /\ todo = {}
    /\ before = [heap |-> heap, defs |-> defs]
    /\ Flatten = TRUE
    /\ out = NoOutput
    /\ rhs = EmptyMap
    /\ pkgExternalTypes = EmptyMap
    /\ fileExternalRefs = EmptyMap
    /\ report = ""
    /\ fetched = {}
    /\ parsed = defs
    /\ pc = "Prune"
    /\ diag = NoDiag

NextPrune ==
    \/ PruneBegin
    \/ PruneSkipVisited
    \/ PruneUnknown
    \/ PruneExpand
    \/ PruneReturn
    \/ DeleteUnreachable

SpecPrune == InitPrune /\ [][NextPrune]_vars

\* Prune is a sequential loop: a step that is possible is taken
SpecPruneLive == SpecPrune /\ WF_vars(NextPrune)

-----------------------------------------------------------------------------
(* The flattener (flattener.go).  recursiveFlatten returns a pointer: the   *)
(* definition it was given, or a new aggregate.  An aggregate built for a   *)
(* referenced member is only read by mergeDefinitions and then dropped, so  *)
(* the result carries the aggregate as a value and flattenAllOf allocates   *)
(* the one it stores.  visited is passed down by value: a call that returns *)
(* has deleted what it added, and a panic ends the run.                     *)

Result(kind, id, def, msg) == [kind |-> kind, id |-> id, def |-> def, msg |-> msg]

\* the Definition a result points to
Deref(h, r) == IF r.kind = "ptr" THEN h[r.id] ELSE r.def

\* (mutant) the description is transferred only while the aggregate has none
mergeDefinitions_KeepFirst(lhsDef, rhsDef) ==
    [lhsDef EXCEPT !.Properties = rhsDef.Properties @@ @,
                   !.Description = IF @ = "" THEN rhsDef.Description ELSE @]

\* (mutant) the required names of the member are added to the aggregate
mergeDefinitions_WithRequired(lhsDef, rhsDef) ==
    [lhsDef EXCEPT !.Properties = rhsDef.Properties @@ @,
                   !.Description = rhsDef.Description,
                   !.Required = @ \o rhsDef.Required]

\* mergeDefinitions: the value of *lhsDef after the call
mergeDefinitions(lhsDef, rhsDef) ==
    [lhsDef EXCEPT !.Properties = rhsDef.Properties @@ @,
                   !.Description = rhsDef.Description]

RECURSIVE recursiveFlatten(_, _, _, _, _)
RECURSIVE flattenMembers(_, _, _, _, _, _)

\* the bare name a reference resolves to
BareName(ref) == ref[Len(ref)]

\* the names the allOf members of the definition of n refer to, in graph g
AllOfRefs(g, n) ==
    {BareName(g.heap[m].Ref) : m \in {x \in Range(g.heap[g.defs[n]].AllOf) : g.heap[x].Ref # <<>>}}

RECURSIVE AllOfReach(_, _)
AllOfReach(g, R) ==
    LET next == R \cup UNION {AllOfRefs(g, n) : n \in R \cap DOMAIN g.defs}
    IN IF next = R THEN R ELSE AllOfReach(g, next)

\* (mutant) a name stays marked when its members are done: the members after a
\* reference are flattened with the marks its flattening left
flattenMembers_NoUnmark(h, d, allOf, i, aggregatedDef, visited) ==
    IF i > Len(allOf) THEN Result("agg", 0, aggregatedDef, "")
    ELSE LET allOfDef == h[allOf[i]]
             nameOfRef == getNameFromURL(allOfDef.Ref)
             newDef == IF allOfDef.Ref # <<>>
                       THEN recursiveFlatten(h, d, IF nameOfRef \in DOMAIN d THEN d[nameOfRef] ELSE 0,
                                             nameOfRef, visited)
                       ELSE Result("ptr", allOf[i], Definition, "")
             left == IF allOfDef.Ref # <<>>
                     THEN {m \in AllOfReach([heap |-> h, defs |-> d], {nameOfRef}) \cap DOMAIN d :
                               h[d[m]].AllOf # <<>>}
                     ELSE {}
         IN IF newDef.kind = "panic" THEN newDef
            ELSE flattenMembers(h, d, allOf, i + 1,
                                mergeDefinitions(aggregatedDef, Deref(h, newDef)), visited \cup left)

\* (mutant) a member that refers to a name without definition is skipped
flattenMembers_SkipsAbsent(h, d, allOf, i, aggregatedDef, visited) ==
    IF i > Len(allOf) THEN Result("agg", 0, aggregatedDef, "")
    ELSE LET allOfDef == h[allOf[i]]
             nameOfRef == getNameFromURL(allOfDef.Ref)
             newDef == IF allOfDef.Ref # <<>>
                       THEN recursiveFlatten(h, d, IF nameOfRef \in DOMAIN d THEN d[nameOfRef] ELSE 0,
                                             nameOfRef, visited)
                       ELSE Result("ptr", allOf[i], Definition, "")
         IN IF allOfDef.Ref # <<>> /\ nameOfRef \notin DOMAIN d
            THEN flattenMembers(h, d, allOf, i + 1, aggregatedDef, visited)
            ELSE IF newDef.kind = "panic" THEN newDef
            ELSE flattenMembers(h, d, allOf, i + 1,
                                mergeDefinitions(aggregatedDef, Deref(h, newDef)), visited)

\* the loop of recursiveFlatten, lines 30-41, from member i on
flattenMembers(h, d, allOf, i, aggregatedDef, visited) ==
    IF i > Len(allOf) THEN Result("agg", 0, aggregatedDef, "")
    ELSE LET allOfDef == h[allOf[i]]
             nameOfRef == getNameFromURL(allOfDef.Ref)
             newDef == IF allOfDef.Ref # <<>>
                       THEN recursiveFlatten(h, d, IF nameOfRef \in DOMAIN d THEN d[nameOfRef] ELSE 0,
                                             nameOfRef, visited)
                       ELSE Result("ptr", allOf[i], Definition, "")
         IN IF newDef.kind = "panic" THEN newDef
            ELSE flattenMembers(h, d, allOf, i + 1,
                                mergeDefinitions(aggregatedDef, Deref(h, newDef)), visited)

\* (mutant) no base case: a definition without allOf members is aggregated too
recursiveFlatten_NoBaseCase(h, d, definition, defName, visited) ==
    IF definition = 0 THEN Result("panic", 0, Definition, "nil pointer dereference")
    ELSE IF defName \in visited THEN Result("panic", 0, Definition, "Cycle detected in definitions")
    ELSE flattenMembers(h, d, h[definition].AllOf, 1, Definition, visited \cup {defName})

\* recursiveFlatten(schema, definition, defName, visited); d is schema.Definitions
recursiveFlatten(h, d, definition, defName, visited) ==
    IF definition = 0 THEN Result("panic", 0, Definition, "nil pointer dereference")
    ELSE IF Len(h[definition].AllOf) = 0 THEN Result("ptr", definition, Definition, "")
    ELSE IF defName \in visited THEN Result("panic", 0, Definition, "Cycle detected in definitions")
    ELSE flattenMembers(h, d, h[definition].AllOf, 1, Definition, visited \cup {defName})

\* flattenAllOf, line 66: the range over schema.Definitions begins
FlattenBegin ==
    /\ pc = "flattenAllOf"
    /\ todo' = DOMAIN defs
    /\ before' = [heap |-> heap, defs |-> defs]
    /\ pc' = "flattening"
    /\ UNCHANGED <<heap, defs, startingTypes, ignoreUnknownTypes, queue, visitedDefs, ret, diag, Flatten, out, rhs, pkgExternalTypes, fileExternalRefs, report, fetched, parsed>>

\* flattenAllOf, lines 66-69: one iteration, for a key in map order
FlattenEntry ==
    /\ pc = "flattening"
    /\ \E nameOfDef \in todo :
          LET r == recursiveFlatten(heap, defs, defs[nameOfDef], nameOfDef, {})
          IN /\ todo' = todo \ {nameOfDef}
             /\ IF r.kind = "panic"
                THEN pc' = "panic" /\ diag' = <<r.msg, "">> /\ UNCHANGED <<heap, defs>>
                ELSE IF r.kind = "ptr"
                THEN defs' = [defs EXCEPT ![nameOfDef] = r.id] /\ UNCHANGED <<heap, pc, diag>>
                ELSE /\ heap' = Append(heap, r.def)
                     /\ defs' = [defs EXCEPT ![nameOfDef] = Len(heap) + 1]
                     /\ UNCHANGED <<pc, diag>>
    /\ UNCHANGED <<startingTypes, ignoreUnknownTypes, queue, visitedDefs, ret, before, Flatten, out, rhs, pkgExternalTypes, fileExternalRefs, report, fetched, parsed>>

\* (mutant) flattenAllOf is followed by the strict check, without the pruning
FlattenReturn_SkipsPrune ==
    /\ pc = "flattening"
    /\ todo = {}
    /\ pc' = "checkDefinitions"
    /\ UNCHANGED <<heap, defs, startingTypes, ignoreUnknownTypes, queue, visitedDefs, ret, todo, before, diag, Flatten, out, rhs, pkgExternalTypes, fileExternalRefs, report, fetched, parsed>>

\* flattenAllOf, line 70: every key was visited
FlattenReturn ==
    /\ pc = "flattening"
    /\ todo = {}
    /\ pc' = "getReachableTypes"
    /\ UNCHANGED <<heap, defs, startingTypes, ignoreUnknownTypes, queue, visitedDefs, ret, todo, before, diag, Flatten, out, rhs, pkgExternalTypes, fileExternalRefs, report, fetched, parsed>>

-----------------------------------------------------------------------------
(* flattenAllOf as a function under test: it is applied to a graph, and     *)
(* applied again to its own result as long as the last run changed it.      *)

\* the members of generated allOf lists: references, a literal with a property
\* and a description, a literal that has allOf members itself
Literal == [Term EXCEPT !.Properties = ("p" :> TType("number")), !.Description = "literal"]
Members == {TRef(x) : x \in Names} \cup {Literal, [Term EXCEPT !.AllOf = <<TRef("Car")>>]}

Composed(members) == [Term EXCEPT !.AllOf = members]

FlattenPlain(n, t) ==
    [Term EXCEPT !.Properties = ("p" :> TType(t)), !.Description = n \o "-desc"]

FlattenPerson ==
    {<<FlattenPlain("Person", "string")>>,
     <<[Term EXCEPT !.Properties = ("f" :> Composed(<<TRef("Address")>>))]>>}
    \cup {<<Composed(ms)>> : ms \in UNION {[1..k -> Members] : k \in 1..MaxAllOf}}
    \cup {<<[Composed(<<TRef("Address")>>) EXCEPT !.Description = "Person-desc", !.Type = "object",
                                               !.Required = <<"p">>]>>}

FlattenAddress ==
    {<<>>, <<FlattenPlain("Address", "string")>>, <<[Term EXCEPT !.Description = "Address-desc"]>>,
     <<[FlattenPlain("Address", "string") EXCEPT !.Required = <<"p">>, !.Type = "object"]>>,
     <<Composed(<<TRef("Person")>>)>>, <<Composed(<<TRef("Car")>>)>>,
     <<Composed(<<TRef("Car"), Literal>>)>>, <<Composed(<<TRef("Address")>>)>>,
     <<[Term EXCEPT !.Properties = ("f" :> Composed(<<TRef("Car")>>))]>>}

FlattenCar ==
    {<<>>, <<FlattenPlain("Car", "number")>>,
     <<[FlattenPlain("Car", "number") EXCEPT !.Properties = ("q" :> TType("string")) @@ @,
                                             !.Description = ""]>>,
     <<Composed(<<TRef("Person")>>)>>, <<Composed(<<TRef("Address")>>)>>, <<Composed(<<Literal>>)>>}

FlattenGraphs == {Graph(TermMap(p, a, c)) : p \in FlattenPerson, a \in FlattenAddress, c \in FlattenCar}

\* compositions over four names: Person is composed of Address and Car, and
\* both may be composed of Engine
DiamondEngine ==
    {FlattenPlain("Engine", "number"),
     [Composed(<<Literal>>) EXCEPT !.Description = "Engine-desc"],
     Composed(<<TRef("Person")>>)}

DiamondSide ==
    {Composed(<<TRef("Engine")>>), Composed(<<TRef("Engine"), Literal>>), FlattenPlain("Side", "string")}

DiamondGraphs ==
    {Graph(("Person" :> Composed(<<TRef("Address"), TRef("Car")>>)) @@ ("Address" :> a)
           @@ ("Car" :> c) @@ ("Engine" :> e)) :
         a \in DiamondSide, c \in DiamondSide, e \in DiamondEngine}

InitFlatten ==
    /\ \E g \in FlattenGraphs \cup DiamondGraphs : heap = g.heap /\ defs = g.defs
    /\ startingTypes = {}
    /\ ignoreUnknownTypes = TRUE
    /\ queue = <<>>
    /\ visitedDefs = {}
    /\ ret = "delete"
    /\ todo = {}
    /\ before = [heap |-> heap, defs |-> defs]
    /\ Flatten = TRUE
    /\ out = NoOutput
    /\ rhs = EmptyMap
    /\ pkgExternalTypes = EmptyMap
    /\ fileExternalRefs = EmptyMap
    /\ report = ""
    /\ fetched = {}
    /\ parsed = defs
    /\ pc = "flattenAllOf"
    /\ diag = NoDiag

\* flattenAllOf is called on the graph it returned, if it changed the graph
FlattenAgain ==
    /\ pc = "getReachableTypes"
    /\ before # [heap |-> heap, defs |-> defs]
    /\ pc' = "flattenAllOf"
    /\ UNCHANGED <<heap, defs, startingTypes, ignoreUnknownTypes, queue, visitedDefs, ret, todo, before, diag, Flatten, out, rhs, pkgExternalTypes, fileExternalRefs, report, fetched, parsed>>

NextFlatten ==
    \/ FlattenBegin
    \/ FlattenEntry
    \/ FlattenReturn
    \/ FlattenAgain

SpecFlatten == InitFlatten /\ [][NextFlatten]_vars

-----------------------------------------------------------------------------
(* The embedder (embed.go).  embedDefinition rewrites definitions in place; *)
(* the operators return the set of outcomes the map orders allow: the heap  *)
(* after a normal return, the panic of a reference without definition, or   *)
(* the exhaustion of the stack.  path holds the definitions of the calls    *)
(* that have not returned: a definition met again below itself is met again *)
(* below that call in the same way (its reference is resolved by then and   *)
(* nothing else changes child fields), so the recursion never returns.      *)

Outcome(kind, h, name) == [kind |-> kind, h |-> h, name |-> name]

\* (mutant) the reference is looked up as it is, with its prefix
TrimPrefix_KeepsPrefix(ref) == ref

\* strings.TrimPrefix(ref, defPrefix), on segments
TrimPrefix(ref) ==
    IF Len(ref) >= 3 /\ SubSeq(ref, 1, 2) = defPrefix THEN SubSeq(ref, 3, Len(ref)) ELSE ref

RECURSIVE Join(_)
\* the string of a sequence of segments
Join(segs) ==
    IF segs = <<>> THEN ""
    ELSE IF Len(segs) = 1 THEN segs[1]
    ELSE segs[1] \o "/" \o Join(Tail(segs))

\* refs[refName] exists: a key has no "/" in it
Found(refs, refName) == Len(refName) = 1 /\ refName[1] \in DOMAIN refs

\* (mutant) the reference is resolved without taking the type of its target
embedRef_NoType(def, ref) == [def EXCEPT !.Properties = ref.Properties, !.Ref = <<>>]

\* (mutant) the required names of the target are taken along with its properties
embedRef_WithRequired(def, ref) ==
    [def EXCEPT !.Properties = ref.Properties, !.Type = ref.Type, !.Required = ref.Required, !.Ref = <<>>]

\* embedDefinition, lines 25-27: *def after the reference to *ref is resolved
embedRef(def, ref) == [def EXCEPT !.Properties = ref.Properties, !.Type = ref.Type, !.Ref = <<>>]

\* the child positions embedDefinition descends into, lines 30-39, in order
EmbedOrder == <<"Definitions", "Properties", "AnyOf", "OneOf", "AdditionalItems", "Items", "Not", "Media">>

RECURSIVE embedDefinition(_, _, _, _)
RECURSIVE embedDefinitionList(_, _, _, _)
RECURSIVE embedChildren(_, _, _, _, _)

\* embedDefinition over the pointers of ids, one after the other
embedDefinitionList(h, refs, ids, path) ==
    IF ids = <<>> THEN {Outcome("ok", h, "")}
    ELSE UNION {IF o.kind = "ok" THEN embedDefinitionList(o.h, refs, Tail(ids), path) ELSE {o} :
                    o \in embedDefinition(h, refs, Head(ids), path)}

embedDefinitionMap(h, refs, m, path) ==
    UNION {embedDefinitionList(h, refs, [i \in 1..Len(ord) |-> m[ord[i]]], path) :
               ord \in Orders(DOMAIN m)}

embedDefinitionArray(h, refs, a, path) == embedDefinitionList(h, refs, a, path)

\* the calls of lines 30-39 from position i on; each reads its field when it is made
embedChildren(h, refs, def, i, path) ==
    IF i > Len(EmbedOrder) THEN {Outcome("ok", h, "")}
    ELSE LET f == EmbedOrder[i]
             outs == IF f \in MapFields THEN embedDefinitionMap(h, refs, h[def][f], path)
                     ELSE IF f \in ArrayFields THEN embedDefinitionArray(h, refs, h[def][f], path)
                     ELSE embedDefinition(h, refs, h[def][f], path)
         IN UNION {IF o.kind = "ok" THEN embedChildren(o.h, refs, def, i + 1, path) ELSE {o} :
                       o \in outs}

embedDefinition(h, refs, def, path) ==
    IF def = 0 THEN {Outcome("ok", h, "")}
    ELSE IF def \in path THEN {Outcome("overflow", h, "")}
    ELSE LET refName == TrimPrefix(h[def].Ref)
         IN IF Len(h[def].Ref) > 0 /\ ~Found(refs, refName)
            THEN {Outcome("panic", h, Join(refName))}
            ELSE LET h1 == IF Len(h[def].Ref) > 0
                           THEN [h EXCEPT ![def] = embedRef(@, h[refs[refName[1]]])]
                           ELSE h
                 IN embedChildren(h1, refs, def, 1, path \cup {def})

\* embedSchema, line 9: the range over startingTypes begins
EmbedBegin ==
    /\ pc = "embedSchema"
    /\ todo' = startingTypes
    /\ before' = [heap |-> heap, defs |-> defs]
    /\ pc' = "embedding"
    /\ UNCHANGED <<heap, defs, startingTypes, ignoreUnknownTypes, queue, visitedDefs, ret, diag, Flatten, out, rhs, pkgExternalTypes, fileExternalRefs, report, fetched, parsed>>

\* (mutant) a reference without definition is left in place and the run goes on
EmbedEntry_Tolerant ==
    /\ pc = "embedding"
    /\ \E name \in todo :
          \E o \in embedDefinition(heap, defs, IF name \in DOMAIN defs THEN defs[name] ELSE 0, {}) :
             /\ todo' = todo \ {name}
             /\ heap' = o.h
             /\ IF o.kind = "overflow"
                THEN pc' = "overflow" /\ diag' = <<"stack overflow", "">>
                ELSE UNCHANGED <<pc, diag>>
    /\ UNCHANGED <<defs, startingTypes, ignoreUnknownTypes, queue, visitedDefs, ret, before, Flatten, out, rhs, pkgExternalTypes, fileExternalRefs, report, fetched, parsed>>

\* (mutant) a definition met again below itself is left alone and the call returns
EmbedEntry_Guarded ==
    /\ pc = "embedding"
    /\ \E name \in todo :
          \E o \in embedDefinition(heap, defs, IF name \in DOMAIN defs THEN defs[name] ELSE 0, {}) :
             /\ todo' = todo \ {name}
             /\ heap' = o.h
             /\ IF o.kind = "panic"
                THEN pc' = "panic" /\ diag' = <<"can't find the definition of", o.name>>
                ELSE UNCHANGED <<pc, diag>>
    /\ UNCHANGED <<defs, startingTypes, ignoreUnknownTypes, queue, visitedDefs, ret, before, Flatten, out, rhs, pkgExternalTypes, fileExternalRefs, report, fetched, parsed>>

\* (mutant) the range over startingTypes never moves on to the next name
EmbedEntry_Repeats ==
    /\ pc = "embedding"
    /\ \E name \in todo :
          \E o \in embedDefinition(heap, defs, IF name \in DOMAIN defs THEN defs[name] ELSE 0, {}) :
             /\ todo' = todo
             /\ heap' = o.h
             /\ IF o.kind = "panic"
                THEN pc' = "panic" /\ diag' = <<"can't find the definition of", o.name>>
                ELSE IF o.kind = "overflow"
                THEN pc' = "overflow" /\ diag' = <<"stack overflow", "">>
                ELSE UNCHANGED <<pc, diag>>
    /\ UNCHANGED <<defs, startingTypes, ignoreUnknownTypes, queue, visitedDefs, ret, before, Flatten, out, rhs, pkgExternalTypes, fileExternalRefs, report, fetched, parsed>>

\* embedSchema, lines 9-11: one iteration, for a starting type in map order
EmbedEntry ==
    /\ pc = "embedding"
    /\ \E name \in todo :
          \E o \in embedDefinition(heap, defs, IF name \in DOMAIN defs THEN defs[name] ELSE 0, {}) :
             /\ todo' = todo \ {name}
             /\ heap' = o.h
             /\ IF o.kind = "panic"
                THEN pc' = "panic" /\ diag' = <<"can't find the definition of", o.name>>
                ELSE IF o.kind = "overflow"
                THEN pc' = "overflow" /\ diag' = <<"stack overflow", "">>
                ELSE UNCHANGED <<pc, diag>>
    /\ UNCHANGED <<defs, startingTypes, ignoreUnknownTypes, queue, visitedDefs, ret, before, Flatten, out, rhs, pkgExternalTypes, fileExternalRefs, report, fetched, parsed>>

\* embedSchema, line 12: every starting type was visited
EmbedReturn ==
    /\ pc = "embedding"
    /\ todo = {}
    /\ pc' = "newDefs"
    /\ UNCHANGED <<heap, defs, startingTypes, ignoreUnknownTypes, queue, visitedDefs, ret, todo, before, diag, Flatten, out, rhs, pkgExternalTypes, fileExternalRefs, report, fetched, parsed>>

-----------------------------------------------------------------------------
(* The stages of Options.Generate after the files of the package were       *)
(* parsed and merged, for a package that refers to no other package.        *)

\* parseTypesInPackage, line 355: getReachableTypes calls Prune(true)
GetReachableTypesPkg ==
    /\ pc = "parseTypesInPackage"
    /\ ignoreUnknownTypes' = TRUE
    /\ ret' = "deletePkg"
    /\ pc' = "Prune"
    /\ UNCHANGED <<heap, defs, startingTypes, queue, visitedDefs, todo, before, diag, Flatten, out, rhs, pkgExternalTypes, fileExternalRefs, report, fetched, parsed>>

\* uniquePkgTypeRefs, lines 371-378: the type names referenced per package
uniquePkgTypeRefs(externalTypes) ==
    LET refs == UNION {Range(externalTypes[key]) : key \in DOMAIN externalTypes}
    IN [pkg \in {r.PackageName : r \in refs} |-> {r.TypeName : r \in {x \in refs : x.PackageName = pkg}}]

\* parseTypesInPackage, lines 356-378: the definitions and the external
\* references of the names Prune did not return are deleted; without a
\* referenced package the loop of lines 379-383 is empty and the package
\* returns to Generate, lines 428-434
DeletePkgUnreachable ==
    /\ pc = "deletePkg"
    /\ defs' = [key \in DOMAIN defs \cap visitedDefs |-> defs[key]]
    /\ pkgExternalTypes' = [key \in DOMAIN pkgExternalTypes \ (DOMAIN defs \ visitedDefs) |->
                               pkgExternalTypes[key]]
    /\ pc' = IF DOMAIN uniquePkgTypeRefs(pkgExternalTypes') = {} THEN "flattenAllOf" ELSE "childPackages"
    /\ UNCHANGED <<heap, startingTypes, ignoreUnknownTypes, queue, visitedDefs, ret, todo, before, diag, Flatten, out, rhs, fileExternalRefs, report, fetched, parsed>>

\* Generate, line 439: getReachableTypes calls Prune(true)
GetReachableTypes ==
    /\ pc = "getReachableTypes"
    /\ ignoreUnknownTypes' = TRUE
    /\ ret' = "delete"
    /\ pc' = "Prune"
    /\ UNCHANGED <<heap, defs, startingTypes, queue, visitedDefs, todo, before, diag, Flatten, out, rhs, pkgExternalTypes, fileExternalRefs, report, fetched, parsed>>

\* (mutant) the output file is written before the strict check runs
CheckDefinitions_WritesFirst ==
    /\ pc = "checkDefinitions"
    /\ ignoreUnknownTypes' = FALSE
    /\ ret' = "checked"
    /\ out' = [written |-> TRUE, defs |-> defs]
    /\ pc' = "Prune"
    /\ UNCHANGED <<heap, defs, startingTypes, queue, visitedDefs, todo, before, diag, Flatten, rhs, pkgExternalTypes, fileExternalRefs, report, fetched, parsed>>

\* checkDefinitions, lines 7-8: Prune(false) over the pruned graph
CheckDefinitions ==
    /\ pc = "checkDefinitions"
    /\ ignoreUnknownTypes' = FALSE
    /\ ret' = "checked"
    /\ pc' = "Prune"
    /\ UNCHANGED <<heap, defs, startingTypes, queue, visitedDefs, todo, before, diag, Flatten, out, rhs, pkgExternalTypes, fileExternalRefs, report, fetched, parsed>>

\* checkDefinitions, lines 9-13: the comparison len(defs) != len(defs) and the
\* line it prints; then Generate, line 448
CheckDefinitionsReturn ==
    /\ pc = "checked"
    /\ report' = IF Cardinality(DOMAIN defs) # Cardinality(DOMAIN defs)
                 THEN "Type checking failed"
                 ELSE "Type checking PASSED"
    /\ pc' = IF Flatten THEN "write" ELSE "embedSchema"
    /\ UNCHANGED <<heap, defs, startingTypes, ignoreUnknownTypes, queue, visitedDefs, ret, todo, before, diag, Flatten, out, rhs, pkgExternalTypes, fileExternalRefs, fetched, parsed>>

\* Generate, lines 451-455: the graph is replaced by the entries of the starting types
NewDefs ==
    /\ pc = "newDefs"
    /\ defs' = [name \in startingTypes |-> IF name \in DOMAIN defs THEN defs[name] ELSE 0]
    /\ pc' = "write"
    /\ UNCHANGED <<heap, startingTypes, ignoreUnknownTypes, queue, visitedDefs, ret, todo, before, diag, Flatten, out, rhs, pkgExternalTypes, fileExternalRefs, report, fetched, parsed>>

\* Generate, lines 458-471: the schema is encoded into the output file
WriteOutput ==
    /\ pc = "write"
    /\ out' = [written |-> TRUE, defs |-> defs]
    /\ pc' = "done"
    /\ UNCHANGED <<heap, defs, startingTypes, ignoreUnknownTypes, queue, visitedDefs, ret, todo, before, diag, Flatten, rhs, pkgExternalTypes, fileExternalRefs, report, fetched, parsed>>

-----------------------------------------------------------------------------
(* The definitions newDefinition extracts from type declarations *)

\* a struct without inline fields: its properties and its required names
newStruct(props, required, comment) ==
    [Term EXCEPT !.Properties = props, !.Required = required, !.Description = comment]

\* a struct with inline fields: the parent holds a reference per inline field
\* and then the struct's own part, if that has properties
newInline(inlined, childDef) ==
    [Term EXCEPT !.AllOf = [i \in 1..Len(inlined) |-> TRef(inlined[i])]
                           \o (IF childDef.Properties # EmptyMap THEN <<childDef>> ELSE <<>>)]

\* an array type: its element is a simple type or a reference
newArray(elt) == [TType("array") EXCEPT !.Items = <<elt>>]

\* a map type whose value type is an identifier
newMap(value) == [TType("object") EXCEPT !.AdditionalProperties = <<value>>]

\* an identifier that is no simple type, with the comment of the declaration
newAlias(typeName, comment) == [TRef(typeName) EXCEPT !.Description = comment]

\* the Person of the README example, without its age
ReadmePerson ==
    newStruct(("name" :> TType("string")) @@ ("address" :> TRef("Address")), <<"name">>, "Person-desc")

GenPerson ==
    {<<>>, <<ReadmePerson>>,
     <<newStruct(("address" :> TRef("Address")) @@ ("car" :> TRef("Car")), <<>>, "")>>,
     <<newStruct("cars" :> newArray(TRef("Car")), <<>>, "")>>,
     <<newStruct("m" :> newMap(TRef("Address")), <<>>, "")>>,
     <<newStruct("f" :> newInline(<<"Address">>, Term), <<>>, "")>>,
     <<newStruct("self" :> TRef("Person"), <<>>, "")>>,
     <<newInline(<<"Address">>, Term)>>,
     <<newInline(<<"Address">>, newStruct("name" :> TType("string"), <<>>, "Person-desc"))>>,
     <<newInline(<<"Address", "Car">>, Term)>>,
     <<newAlias("Address", "Person-desc")>>,
     <<newMap(TRef("Address"))>>,
     <<newArray(TRef("Address"))>>}

\* the Address of the README example is the empty struct: newStruct without
\* properties; a map type whose value type is no identifier has type object only
GenAddress ==
    {<<>>, <<newStruct(EmptyMap, <<>>, "")>>, <<newStruct(EmptyMap, <<>>, "Address-desc")>>,
     <<TType("object")>>,
     <<newStruct("street" :> TType("string"), <<>>, "Address-desc")>>,
     <<newStruct("car" :> TRef("Car"), <<>>, "")>>,
     <<newStruct("owner" :> TRef("Person"), <<>>, "")>>,
     <<newAlias("Car", "")>>,
     <<newMap(TRef("Car"))>>,
     <<newInline(<<"Car">>, Term)>>,
     <<newInline(<<"Person">>, Term)>>}

GenCar ==
    {<<>>, <<newStruct("make" :> TType("string"), <<"make">>, "Car-desc")>>,
     <<newStruct(EmptyMap, <<>>, "")>>,
     <<newStruct("owner" :> TRef("Person"), <<>>, "")>>,
     <<newAlias("Address", "")>>}

GenGraphs == {Graph(TermMap(p, a, c)) : p \in GenPerson, a \in GenAddress, c \in GenCar}

Init ==
    /\ \E g \in GenGraphs : heap = g.heap /\ defs = g.defs
    /\ startingTypes \in {{"Person"}, {"Person", "Car"}}
    /\ ignoreUnknownTypes = TRUE
    /\ queue = <<>>
    /\ visitedDefs = {}
    /\ ret = "deletePkg"
    /\ todo = {}
    /\ before = [heap |-> heap, defs |-> defs]
    /\ Flatten \in BOOLEAN
    /\ out = NoOutput
    /\ rhs = EmptyMap
    /\ pkgExternalTypes = EmptyMap
    /\ fileExternalRefs = EmptyMap
    /\ report = ""
    /\ fetched = {}
    /\ parsed = defs
    /\ pc = "parseTypesInPackage"
    /\ diag = NoDiag

Next ==
    \/ GetReachableTypesPkg
    \/ PruneBegin
    \/ PruneSkipVisited
    \/ PruneUnknown
    \/ PruneExpand
    \/ PruneReturn
    \/ DeletePkgUnreachable
    \/ FlattenBegin
    \/ FlattenEntry
    \/ FlattenReturn
    \/ GetReachableTypes
    \/ DeleteUnreachable
    \/ CheckDefinitions
    \/ CheckDefinitionsReturn
    \/ EmbedBegin
    \/ EmbedEntry
    \/ EmbedReturn
    \/ NewDefs
    \/ WriteOutput

Spec == Init /\ [][Next]_vars

-----------------------------------------------------------------------------
(* Type declarations and newDefinition.  A type expression is a record: an  *)
(* identifier, a selector alias.Name, a pointer, an array, a map or a       *)
(* struct; a field has its tag name, its tag option and its type.  A        *)
(* package path is the sequence of its "/" segments, a package prefix (the  *)
(* path with "." for "/") is one segment.                                   *)

Expr(kind, name, alias, sub, fields) ==
    [kind |-> kind, name |-> name, alias |-> alias, sub |-> sub, fields |-> fields]

Ident(name) == Expr("Ident", name, "", <<>>, <<>>)
SelectorExpr(alias, name) == Expr("SelectorExpr", name, alias, <<>>, <<>>)
StarExpr(x) == Expr("StarExpr", "", "", <<x>>, <<>>)
ArrayType(elt) == Expr("ArrayType", "", "", <<elt>>, <<>>)
MapType(value) == Expr("MapType", "", "", <<value>>, <<>>)
StructType(fields) == Expr("StructType", "", "", <<>>, fields)

\* a field with the result of extractFromTag for its tag
Field(yamlName, option, type) == [yamlName |-> yamlName, option |-> option, type |-> type]

isSimpleType(typeName) == typeName \in {"string", "int", "int32", "int64", "bool"}

jsonifyType(typeName) ==
    IF typeName = "string" THEN "string" ELSE IF typeName = "bool" THEN "boolean" ELSE "number"

RECURSIVE DotJoin(_)
\* strings.Replace(prefix, "/", ".", -1)
DotJoin(segs) ==
    IF segs = <<>> THEN ""
    ELSE IF Len(segs) = 1 THEN segs[1]
    ELSE segs[1] \o "." \o DotJoin(Tail(segs))

getFullName(resourceName, prefix) ==
    IF prefix = <<>> THEN resourceName ELSE DotJoin(prefix) \o "." \o resourceName

getPrefixedDefLink(resourceName, prefix) == defPrefix \o <<getFullName(resourceName, prefix)>>

\* importPaths[alias]: the zero value for an alias that was not imported
ImportPath(importPaths, alias) == IF alias \in DOMAIN importPaths THEN importPaths[alias] ELSE <<>>

\* the type name and the package alias newDefinition reads off a type that is an
\* identifier, a pointer to one, or a selector, and the reference it records
NameOf(t) ==
    LET x == IF t.kind = "StarExpr" THEN t.sub[1] ELSE t
    IN [typeName |-> x.name, packageAlias |-> x.alias,
        refs |-> IF x.kind = "SelectorExpr" THEN <<TypeReference(x.name, x.alias)>> ELSE <<>>]

\* a definition that is a simple type, or a reference into the package the alias
\* names, or into the current package
TypeOrRef(typeName, packageAlias, importPaths, curPkgPrefix) ==
    IF isSimpleType(typeName) THEN TType(jsonifyType(typeName))
    ELSE IF packageAlias # ""
    THEN [Term EXCEPT !.Ref = getPrefixedDefLink(typeName, ImportPath(importPaths, packageAlias))]
    ELSE [Term EXCEPT !.Ref = getPrefixedDefLink(typeName, curPkgPrefix)]

RECURSIVE newDefinition(_, _, _, _)
RECURSIVE newStructFields(_, _, _, _, _)

\* the loop over the fields of a struct type, lines 171-238, from field i on;
\* acc: def, inlineDefinitions and externalTypeRefs so far
newStructFields(fields, i, importPaths, curPkgPrefix, acc) ==
    IF i > Len(fields) THEN acc
    ELSE LET field == fields[i]
             n == IF field.type.kind \in {"Ident", "StarExpr", "SelectorExpr"}
                  THEN NameOf(field.type)
                  ELSE [typeName |-> "", packageAlias |-> "", refs |-> <<>>]
             refs1 == acc.refs \o n.refs
             inlinedDef == [Term EXCEPT !.Ref =
                               IF n.packageAlias # ""
                               THEN getPrefixedDefLink(n.typeName, ImportPath(importPaths, n.packageAlias))
                               ELSE getPrefixedDefLink(n.typeName, curPkgPrefix)]
             prop == newDefinition(field.type, "", importPaths, curPkgPrefix)
         IN newStructFields(fields, i + 1, importPaths, curPkgPrefix,
                IF field.option = "inline"
                THEN [acc EXCEPT !.refs = refs1, !.inline = Append(@, inlinedDef)]
                ELSE IF field.yamlName = "" \/ field.yamlName = "-"
                THEN [acc EXCEPT !.refs = refs1]
                ELSE [acc EXCEPT !.refs = refs1 \o prop.refs,
                                 !.def.Required = IF field.option = "required"
                                                  THEN Append(@, field.yamlName) ELSE @,
                                 !.def.Properties = (field.yamlName :> prop.def) @@ @])

\* newDefinition(t, comment, importPaths, curPkgPrefix): the definition, as a
\* term, and the external type references
newDefinition(t, comment, importPaths, curPkgPrefix) ==
    LET def == [Term EXCEPT !.Description = comment]
    IN IF t.kind = "Ident"
       THEN [def |-> IF isSimpleType(t.name)
                     THEN [def EXCEPT !.Type = jsonifyType(t.name)]
                     ELSE [def EXCEPT !.Ref = getPrefixedDefLink(t.name, curPkgPrefix)],
             refs |-> <<>>]
       ELSE IF t.kind = "ArrayType"
       THEN LET n == NameOf(t.sub[1])
            IN [def |-> [def EXCEPT !.Type = "array",
                                    !.Items = <<TypeOrRef(n.typeName, n.packageAlias,
                                                          importPaths, curPkgPrefix)>>],
                refs |-> IF t.sub[1].kind = "SelectorExpr" THEN n.refs ELSE <<>>]
       ELSE IF t.kind = "MapType"
       THEN [def |-> IF t.sub[1].kind = "Ident"
                     THEN [def EXCEPT !.Type = "object",
                                      !.AdditionalProperties =
                                          <<IF isSimpleType(t.sub[1].name)
                                            THEN TType(t.sub[1].name)
                                            ELSE [Term EXCEPT !.Ref = getPrefixedDefLink(t.sub[1].name,
                                                                                         curPkgPrefix)]>>]
                     ELSE [def EXCEPT !.Type = "object"],
             refs |-> <<>>]
       ELSE IF t.kind = "SelectorExpr"
       THEN [def |-> [def EXCEPT !.Ref = getPrefixedDefLink(t.name, ImportPath(importPaths, t.alias))],
             refs |-> <<TypeReference(t.name, t.alias)>>]
       ELSE IF t.kind = "StarExpr"
       THEN LET n == NameOf(t)
                d == TypeOrRef(n.typeName, n.packageAlias, importPaths, curPkgPrefix)
            IN [def |-> [def EXCEPT !.Type = d.Type, !.Ref = d.Ref], refs |-> n.refs]
       ELSE LET r == newStructFields(t.fields, 1, importPaths, curPkgPrefix,
                                     [def |-> def, inline |-> <<>>, refs |-> <<>>])
            IN [def |-> IF Len(r.inline) # 0
                        THEN [Term EXCEPT !.AllOf = IF r.def.Properties # EmptyMap
                                                    THEN Append(r.inline, r.def) ELSE r.inline]
                        ELSE r.def,
                refs |-> r.refs]

-----------------------------------------------------------------------------
(* parseTypesInPackage over a package that refers to other packages.  The   *)
(* root package has one file; the packages it imports define a few types    *)
(* and import nothing.                                                      *)

PkgPath == <<"example.com", "pkg">>
OtherPath == <<"example.com", "other">>

\* the import statements of the root package's file: alias -> path
RootImports == ("pkg" :> PkgPath) @@ ("other" :> OtherPath)

\* the type declarations of the imported packages
ForeignDecls ==
    (PkgPath :> (("Foo" :> StructType(<<Field("bar", "", Ident("Bar"))>>))
                 @@ ("Bar" :> StructType(<<Field("id", "", Ident("int"))>>))
                 @@ ("Baz" :> StructType(<<>>))))
    @@ (OtherPath :> ("Qux" :> StructType(<<Field("n", "required", Ident("string"))>>)))

\* parseTypesInFile, lines 297-317: the definitions and the external
\* references of the declarations decls, the aliases replaced by the paths
parseTypesInFile(decls, importPaths, curPkgPrefix) ==
    LET key(n) == getFullName(n, curPkgPrefix)
        name(k) == CHOOSE n \in DOMAIN decls : key(n) = k
        parse(n) == newDefinition(decls[n], "", importPaths, curPkgPrefix)
        resolve(refs) == [i \in 1..Len(refs) |->
                             TypeReference(refs[i].TypeName, ImportPath(importPaths, refs[i].PackageName))]
    IN [definitions |-> [k \in {key(n) : n \in DOMAIN decls} |-> parse(name(k)).def],
        externalRefs |-> [k \in {key(n) : n \in DOMAIN decls} |-> resolve(parse(name(k)).refs)]]

RECURSIVE PruneAll(_, _, _)
\* Prune(true) run to its end: the names visited are the names of R that have a
\* definition and the names with a definition that processDefinition returns
\* for a visited one
PruneAll(h, d, R) ==
    LET next == (R \cup UNION {Range(CHOOSE more \in processDefinition(h, d[n]) : TRUE) :
                                  n \in R \cap DOMAIN d}) \cap DOMAIN d
    IN IF next = R THEN R ELSE PruneAll(h, d, next)

\* the packages of uniquePkgTypeRefs the loop of lines 379-383 has yet to visit
ChildPackagesLeft == DOMAIN uniquePkgTypeRefs(pkgExternalTypes) \ {f.PackageName : f \in fetched}

\* An iteration of the loop of parseTypesInPackage, lines 379-383, with the call
\* parseTypesInPackage(childPkgName, childTypes, false) for a package that
\* imports nothing: the package is fetched, its file is parsed, the
\* definitions Prune(true) does not reach from the referenced types are
\* deleted, and the others are merged into the caller's map, where a name
\* already present wins; after the last package the caller returns to Generate.
\* (The one-element sets name the intermediate values of the call.)
ChildPackage ==
    /\ pc = "childPackages"
    /\ \E childPkgName \in ChildPackagesLeft :
       \E childTypes \in {uniquePkgTypeRefs(pkgExternalTypes)[childPkgName]} :
       \E pkgPrefix \in {<<DotJoin(childPkgName)>>} :
       \E file \in {parseTypesInFile(ForeignDecls[childPkgName], EmptyMap, pkgPrefix)} :
       \E g \in {Graph(file.definitions)} :
       \E allReachableTypes \in {PruneAll(g.heap, g.defs, {getFullName(k, pkgPrefix) : k \in childTypes})} :
       \E childDefs \in {[key \in DOMAIN file.definitions \cap allReachableTypes |-> file.definitions[key]]} :
       \E r \in {BuildGraph(childDefs, SetToSeq(DOMAIN childDefs), [heap |-> heap, defs |-> EmptyMap])} :
          /\ fetched' = fetched \cup {[PackageName |-> childPkgName, Types |-> childTypes]}
          /\ heap' = r.heap
          /\ defs' = defs @@ r.defs
          /\ pc' = IF ChildPackagesLeft = {childPkgName} THEN "flattenAllOf" ELSE "childPackages"
    /\ UNCHANGED <<startingTypes, ignoreUnknownTypes, queue, visitedDefs, ret, todo, before, diag, Flatten, out, rhs, pkgExternalTypes, fileExternalRefs, report, parsed>>

\* the declarations of the root package's file
ParsePerson ==
    {<<StructType(<<Field("name", "required", Ident("string")), Field("address", "", Ident("Address"))>>)>>,
     <<StructType(<<Field("foo", "", SelectorExpr("pkg", "Foo"))>>)>>,
     <<StructType(<<Field("foo", "", StarExpr(SelectorExpr("pkg", "Foo"))), Field("car", "", StarExpr(Ident("Car")))>>)>>,
     <<StructType(<<Field("foos", "", ArrayType(SelectorExpr("pkg", "Foo"))), Field("tags", "", MapType(Ident("string")))>>)>>,
     <<StructType(<<Field("", "inline", SelectorExpr("pkg", "Bar")), Field("name", "", Ident("string"))>>)>>,
     <<StructType(<<Field("-", "", SelectorExpr("pkg", "Bar")), Field("name", "", Ident("string"))>>)>>,
     <<StructType(<<Field("", "", StarExpr(SelectorExpr("other", "Qux"))), Field("address", "", Ident("Address"))>>)>>,
     <<SelectorExpr("pkg", "Baz")>>,
     <<ArrayType(StarExpr(Ident("Address")))>>}

ParseAddress ==
    {<<>>,
     <<StructType(<<>>)>>,
     <<StructType(<<Field("street", "", Ident("string"))>>)>>,
     <<StructType(<<Field("qux", "", SelectorExpr("other", "Qux"))>>)>>}

ParseCar ==
    {<<>>,
     <<StructType(<<Field("make", "", Ident("string"))>>)>>,
     <<StructType(<<Field("foo", "", SelectorExpr("pkg", "Foo"))>>)>>}

ParseFiles == {parseTypesInFile(TermMap(p, a, c), RootImports, <<>>) :
                   p \in ParsePerson, a \in ParseAddress, c \in ParseCar}

\* the root package after the loop over its files, lines 337-341
InitParse ==
    /\ \E f \in ParseFiles :
          /\ heap = Graph(f.definitions).heap
          /\ defs = Graph(f.definitions).defs
          /\ pkgExternalTypes = f.externalRefs
    /\ startingTypes \in {{"Person"}, {"Person", "Car"}}
    /\ ignoreUnknownTypes = TRUE
    /\ queue = <<>>
    /\ visitedDefs = {}
    /\ ret = "deletePkg"
    /\ todo = {}
    /\ before = [heap |-> heap, defs |-> defs]
    /\ Flatten \in BOOLEAN
    /\ out = NoOutput
    /\ rhs = EmptyMap
    /\ fileExternalRefs = EmptyMap
    /\ report = ""
    /\ fetched = {}
    /\ parsed = defs
    /\ pc = "parseTypesInPackage"
    /\ diag = NoDiag

NextParse ==
    \/ GetReachableTypesPkg
    \/ PruneBegin
    \/ PruneSkipVisited
    \/ PruneUnknown
    \/ PruneExpand
    \/ PruneReturn
    \/ DeletePkgUnreachable
    \/ ChildPackage

SpecParse == InitParse /\ [][NextParse]_vars

-----------------------------------------------------------------------------
(* A package that is resolved from several call sites: each package that    *)
(* refers to it calls parseTypesInPackage for the types it refers to, and   *)
(* the results are merged, one after the other, on the way back to the      *)
(* root.  rhs holds what one call for all the types returns.                *)

\* the type names a call site may ask for; Nope is not declared by the package
SiteTypes == {"Foo", "Bar", "Baz", "Nope"}

\* (mutant) the result of a call replaces the definitions merged so far
ResolveSite_Replaces ==
    /\ pc = "resolving"
    /\ \E site \in todo :
       \E pkgPrefix \in {<<DotJoin(PkgPath)>>} :
       \E file \in {parseTypesInFile(ForeignDecls[PkgPath], EmptyMap, pkgPrefix)} :
       \E g \in {Graph(file.definitions)} :
       \E allReachableTypes \in {PruneAll(g.heap, g.defs, {getFullName(k, pkgPrefix) : k \in site.types})} :
       \E childDefs \in {[key \in DOMAIN file.definitions \cap allReachableTypes |-> file.definitions[key]]} :
       \E r \in {BuildGraph(childDefs, SetToSeq(DOMAIN childDefs), [heap |-> heap, defs |-> EmptyMap])} :
          /\ todo' = todo \ {site}
          /\ fetched' = fetched \cup {[PackageName |-> PkgPath, Types |-> site.types]}
          /\ heap' = r.heap
          /\ defs' = r.defs
    /\ UNCHANGED <<startingTypes, ignoreUnknownTypes, queue, visitedDefs, ret, before, pc, diag, Flatten, out, rhs, pkgExternalTypes, fileExternalRefs, report, parsed>>

\* parseTypesInPackage(PkgPath, site.types, false), lines 322-386, and the
\* mergeDefs of its result at the call site, line 382
ResolveSite ==
    /\ pc = "resolving"
    /\ \E site \in todo :
       \E pkgPrefix \in {<<DotJoin(PkgPath)>>} :
       \E file \in {parseTypesInFile(ForeignDecls[PkgPath], EmptyMap, pkgPrefix)} :
       \E g \in {Graph(file.definitions)} :
       \E allReachableTypes \in {PruneAll(g.heap, g.defs, {getFullName(k, pkgPrefix) : k \in site.types})} :
       \E childDefs \in {[key \in DOMAIN file.definitions \cap allReachableTypes |-> file.definitions[key]]} :
       \E r \in {BuildGraph(childDefs, SetToSeq(DOMAIN childDefs), [heap |-> heap, defs |-> EmptyMap])} :
          /\ todo' = todo \ {site}
          /\ fetched' = fetched \cup {[PackageName |-> PkgPath, Types |-> site.types]}
          /\ heap' = r.heap
          /\ defs' = defs @@ r.defs
    /\ UNCHANGED <<startingTypes, ignoreUnknownTypes, queue, visitedDefs, ret, before, pc, diag, Flatten, out, rhs, pkgExternalTypes, fileExternalRefs, report, parsed>>

\* parseTypesInPackage(PkgPath, types, false) for the types of all call sites
ResolveOnce ==
    /\ pc = "resolving"
    /\ todo = {}
    /\ \E types \in {UNION {f.Types : f \in fetched}} :
       \E pkgPrefix \in {<<DotJoin(PkgPath)>>} :
       \E file \in {parseTypesInFile(ForeignDecls[PkgPath], EmptyMap, pkgPrefix)} :
       \E g \in {Graph(file.definitions)} :
       \E allReachableTypes \in {PruneAll(g.heap, g.defs, {getFullName(k, pkgPrefix) : k \in types})} :
       \E childDefs \in {[key \in DOMAIN file.definitions \cap allReachableTypes |-> file.definitions[key]]} :
       \E r \in {BuildGraph(childDefs, SetToSeq(DOMAIN childDefs), [heap |-> heap, defs |-> EmptyMap])} :
          /\ heap' = r.heap
          /\ rhs' = r.defs
    /\ pc' = "resolved"
    /\ UNCHANGED <<defs, startingTypes, ignoreUnknownTypes, queue, visitedDefs, ret, todo, before, diag, Flatten, out, pkgExternalTypes, fileExternalRefs, report, fetched, parsed>>

\* mergeDefs(defs, copy), lines 45-54, for a copy of defs: every key is present
MergeCopy ==
    /\ pc = "resolved"
    /\ before' = [heap |-> heap, defs |-> defs]
    /\ \E copy \in {[key \in DOMAIN defs |-> defs[key]]} :
          /\ defs' = defs @@ copy
          /\ diag' = IF DOMAIN copy = {} THEN diag
                     ELSE <<"already present", CHOOSE key \in DOMAIN copy : TRUE>>
    /\ pc' = "merged"
    /\ UNCHANGED <<heap, startingTypes, ignoreUnknownTypes, queue, visitedDefs, ret, todo, Flatten, out, rhs, pkgExternalTypes, fileExternalRefs, report, fetched, parsed>>

InitResolve ==
    /\ heap = <<>>
    /\ defs = EmptyMap
    /\ startingTypes = {}
    /\ ignoreUnknownTypes = TRUE
    /\ queue = <<>>
    /\ visitedDefs = {}
    /\ ret = ""
    /\ \E t1 \in SUBSET SiteTypes \ {{}}, t2 \in SUBSET SiteTypes \ {{}} :
          todo = {[site |-> 1, types |-> t1], [site |-> 2, types |-> t2]}
    /\ before = [heap |-> heap, defs |-> defs]
    /\ Flatten = FALSE
    /\ out = NoOutput
    /\ rhs = EmptyMap
    /\ pkgExternalTypes = EmptyMap
    /\ fileExternalRefs = EmptyMap
    /\ report = ""
    /\ fetched = {}
    /\ parsed = defs
    /\ pc = "resolving"
    /\ diag = NoDiag

NextResolve ==
    \/ ResolveSite
    \/ ResolveOnce
    \/ MergeCopy

SpecResolve == InitResolve /\ [][NextResolve]_vars

-----------------------------------------------------------------------------
(* Options.Generate over a package that refers to other packages: the       *)
(* stages of Generate after parseTypesInPackage has merged the files of the *)
(* root package.                                                            *)

NextGenerate ==
    \/ GetReachableTypesPkg
    \/ PruneBegin
    \/ PruneSkipVisited
    \/ PruneUnknown
    \/ PruneExpand
    \/ PruneReturn
    \/ DeletePkgUnreachable
    \/ ChildPackage
    \/ FlattenBegin
    \/ FlattenEntry
    \/ FlattenReturn
    \/ GetReachableTypes
    \/ DeleteUnreachable
    \/ CheckDefinitions
    \/ CheckDefinitionsReturn
    \/ EmbedBegin
    \/ EmbedEntry
    \/ EmbedReturn
    \/ NewDefs
    \/ WriteOutput

SpecGenerate == InitParse /\ [][NextGenerate]_vars

-----------------------------------------------------------------------------
(* embedSchema as a function under test: any graph and entry set *)

EmbedPerson ==
    {<<ReadmePerson>>,
     <<newStruct(("address" :> TRef("Address")) @@ ("car" :> TRef("Car")), <<>>, "")>>,
     <<newStruct("cars" :> newArray(TRef("Car")), <<>>, "")>>,
     <<newStruct("self" :> TRef("Person"), <<>>, "")>>,
     <<newStruct("f" :> newStruct("g" :> TRef("Address"), <<>>, ""), <<>>, "")>>,
     <<newAlias("Address", "Person-desc")>>,
     <<newAlias("Car", "Person-desc")>>,
     <<newArray(TRef("Address"))>>,
     <<newMap(TRef("Address"))>>}
    \cup {<<Edge(pos, "Address")>> : pos \in Positions}

EmbedAddress ==
    {<<>>, <<newStruct(EmptyMap, <<>>, "")>>, <<TType("object")>>,
     <<newStruct("street" :> TType("string"), <<>>, "Address-desc")>>,
     <<newStruct("car" :> TRef("Car"), <<>>, "")>>,
     <<newStruct("owner" :> TRef("Person"), <<>>, "")>>,
     <<newStruct("owners" :> newArray(TRef("Person")), <<>>, "")>>,
     <<newArray(TRef("Person"))>>,
     <<newAlias("Car", "")>>,
     <<newAlias("Person", "")>>}

EmbedCar ==
    {<<>>, <<newStruct("make" :> TType("string"), <<"make">>, "Car-desc")>>,
     <<newStruct("owner" :> TRef("Person"), <<>>, "")>>,
     <<newStruct("home" :> TRef("Address"), <<>>, "")>>,
     <<newArray(TRef("Address"))>>}

EmbedGraphs == {Graph(TermMap(p, a, c)) : p \in EmbedPerson, a \in EmbedAddress, c \in EmbedCar}

InitEmbed ==
    /\ \E g \in EmbedGraphs : heap = g.heap /\ defs = g.defs
    /\ startingTypes \in {{"Person"}, {"Person", "Car"}, {"Car"}}
    /\ ignoreUnknownTypes = FALSE
    /\ queue = <<>>
    /\ visitedDefs = {}
    /\ ret = "checked"
    /\ todo = {}
    /\ before = [heap |-> heap, defs |-> defs]
    /\ Flatten = FALSE
    /\ out = NoOutput
    /\ rhs = EmptyMap
    /\ pkgExternalTypes = EmptyMap
    /\ fileExternalRefs = EmptyMap
    /\ report = ""
    /\ fetched = {}
    /\ parsed = defs
    /\ pc = "embedSchema"
    /\ diag = NoDiag

NextEmbed ==
    \/ EmbedBegin
    \/ EmbedEntry
    \/ EmbedReturn

SpecEmbed == InitEmbed /\ [][NextEmbed]_vars

\* embedSchema is a sequential loop: a step that is possible is taken
SpecEmbedLive == SpecEmbed /\ WF_vars(NextEmbed)

-----------------------------------------------------------------------------
(* checkDefinitions as a function under test: any graph and entry set *)

InitCheck ==
    /\ \E g \in PruneGraphs : heap = g.heap /\ defs = g.defs
    /\ startingTypes \in {{"Person"}, {"Person", "Car"}, {"Car"}}
    /\ ignoreUnknownTypes = TRUE
    /\ queue = <<>>
    /\ visitedDefs = {}
    /\ ret = "delete"
    /\ todo = {}
    /\ before = [heap |-> heap, defs |-> defs]
    /\ Flatten = TRUE
    /\ out = NoOutput
    /\ rhs = EmptyMap
    /\ pkgExternalTypes = EmptyMap
    /\ fileExternalRefs = EmptyMap
    /\ report = ""
    /\ fetched = {}
    /\ parsed = defs
    /\ pc = "checkDefinitions"
    /\ diag = NoDiag

NextCheck ==
    \/ CheckDefinitions
    \/ PruneBegin
    \/ PruneSkipVisited
    \/ PruneUnknown
    \/ PruneExpand
    \/ PruneReturn
    \/ CheckDefinitionsReturn

SpecCheck == InitCheck /\ [][NextCheck]_vars

-----------------------------------------------------------------------------
(* The strict check followed by embedSchema, as functions under test, over  *)
(* references of several forms.                                             *)

\* forms of a reference to name x: as getDefLink gives it, the bare name, a
\* name below a sub-path, and a reference into another document
RefForms(x) ==
    {getDefLink(x), <<x>>, defPrefix \o <<"sub", x>>, <<"other.json#", "definitions", x>>}

RefTo(r) == [Term EXCEPT !.Ref = r]

RefsPerson ==
    {<<newStruct("a" :> RefTo(r), <<>>, "")>> : r \in RefForms("Address") \cup RefForms("Car")}
    \cup {<<newArray(RefTo(r))>> : r \in RefForms("Address")}
    \cup {<<RefTo(r)>> : r \in RefForms("Address")}

RefsAddress ==
    {<<>>, <<newStruct("street" :> TType("string"), <<>>, "Address-desc")>>}
    \cup {<<newStruct("car" :> RefTo(r), <<>>, "")>> : r \in RefForms("Car")}

RefsCar == {<<>>, <<newStruct("make" :> TType("string"), <<"make">>, "Car-desc")>>}

RefsGraphs == {Graph(TermMap(p, a, c)) : p \in RefsPerson, a \in RefsAddress, c \in RefsCar}

InitRefs ==
    /\ \E g \in RefsGraphs : heap = g.heap /\ defs = g.defs
    /\ startingTypes \in {{"Person"}, {"Person", "Address"}}
    /\ ignoreUnknownTypes = TRUE
    /\ queue = <<>>
    /\ visitedDefs = {}
    /\ ret = "delete"
    /\ todo = {}
    /\ before = [heap |-> heap, defs |-> defs]
    /\ Flatten = FALSE
    /\ out = NoOutput
    /\ rhs = EmptyMap
    /\ pkgExternalTypes = EmptyMap
    /\ fileExternalRefs = EmptyMap
    /\ report = ""
    /\ fetched = {}
    /\ parsed = defs
    /\ pc = "checkDefinitions"
    /\ diag = NoDiag

NextRefs ==
    \/ CheckDefinitions
    \/ PruneBegin
    \/ PruneSkipVisited
    \/ PruneUnknown
    \/ PruneExpand
    \/ PruneReturn
    \/ CheckDefinitionsReturn
    \/ EmbedBegin
    \/ EmbedEntry
    \/ EmbedReturn

SpecRefs == InitRefs /\ [][NextRefs]_vars

-----------------------------------------------------------------------------
(* mergeDefs (utils.go), as parseTypesInPackage calls it: defs is lhs.      *)

\* mergeDefs, line 46: the range over rhs begins
MergeBegin ==
    /\ pc = "mergeDefs"
    /\ todo' = DOMAIN rhs
    /\ before' = [heap |-> heap, defs |-> defs]
    /\ pc' = "merging"
    /\ UNCHANGED <<heap, defs, startingTypes, ignoreUnknownTypes, queue, visitedDefs, ret, diag, Flatten, out, rhs, pkgExternalTypes, fileExternalRefs, report, fetched, parsed>>

\* (mutant) a key that lhs has already is overwritten with the entry of rhs
MergeEntry_Overwrite ==
    /\ pc = "merging"
    /\ \E key \in todo :
          /\ todo' = todo \ {key}
          /\ defs' = (key :> rhs[key]) @@ defs
          /\ diag' = diag
    /\ UNCHANGED <<heap, startingTypes, ignoreUnknownTypes, queue, visitedDefs, ret, before, pc, Flatten, out, rhs, pkgExternalTypes, fileExternalRefs, report, fetched, parsed>>

\* mergeDefs, lines 46-53: one iteration, for a key of rhs in map order; a key
\* that lhs has already is printed and skipped
MergeEntry ==
    /\ pc = "merging"
    /\ \E key \in todo :
          /\ todo' = todo \ {key}
          /\ IF key \in DOMAIN defs
             THEN diag' = <<"already present", key>> /\ defs' = defs
             ELSE defs' = (key :> rhs[key]) @@ defs /\ diag' = diag
    /\ UNCHANGED <<heap, startingTypes, ignoreUnknownTypes, queue, visitedDefs, ret, before, pc, Flatten, out, rhs, pkgExternalTypes, fileExternalRefs, report, fetched, parsed>>

\* mergeDefs, line 54: every key of rhs was visited
MergeReturn ==
    /\ pc = "merging"
    /\ todo = {}
    /\ pc' = "merged"
    /\ UNCHANGED <<heap, defs, startingTypes, ignoreUnknownTypes, queue, visitedDefs, ret, todo, before, diag, Flatten, out, rhs, pkgExternalTypes, fileExternalRefs, report, fetched, parsed>>

\* the definitions two files declare for the names, each with its own comment
MergeGraph ==
    Graph([k \in {file \o "-" \o n : file \in {"a", "b"}, n \in Names} |-> newStruct(EmptyMap, <<>>, k)])

\* a map that has, for each name, no entry, the definition of file a or that of
\* file b: lhs and rhs may hold the same pointer for a name
PartialMaps ==
    {[n \in {m \in Names : c[m] # ""} |-> MergeGraph.defs[c[n] \o "-" \o n]] :
         c \in [Names -> {"", "a", "b"}]}

InitMerge ==
    /\ heap = MergeGraph.heap
    /\ defs \in PartialMaps
    /\ rhs \in PartialMaps
    /\ pkgExternalTypes = EmptyMap
    /\ fileExternalRefs = EmptyMap
    /\ report = ""
    /\ fetched = {}
    /\ parsed = defs
    /\ startingTypes = {}
    /\ ignoreUnknownTypes = TRUE
    /\ queue = <<>>
    /\ visitedDefs = {}
    /\ ret = "deletePkg"
    /\ todo = {}
    /\ before = [heap |-> heap, defs |-> defs]
    /\ Flatten = TRUE
    /\ out = NoOutput
    /\ pc = "mergeDefs"
    /\ diag = NoDiag

NextMerge ==
    \/ MergeBegin
    \/ MergeEntry
    \/ MergeReturn

SpecMerge == InitMerge /\ [][NextMerge]_vars

-----------------------------------------------------------------------------
(* mergeExternalRefs (utils.go), as parseTypesInPackage calls it:           *)
(* pkgExternalTypes is lhs, fileExternalRefs is rhs.                        *)

\* mergeExternalRefs, line 57: the range over rhs begins
MergeExternalRefsBegin ==
    /\ pc = "mergeExternalRefs"
    /\ todo' = DOMAIN fileExternalRefs
    /\ before' = [heap |-> heap, defs |-> defs, refs |-> pkgExternalTypes]
    /\ pc' = "mergingRefs"
    /\ UNCHANGED <<heap, defs, startingTypes, ignoreUnknownTypes, queue, visitedDefs, ret, diag, Flatten, out, rhs, pkgExternalTypes, fileExternalRefs, report, fetched, parsed>>

\* (mutant) the list of a key that lhs has already is replaced by the list of rhs
MergeExternalRefsEntry_Overwrite ==
    /\ pc = "mergingRefs"
    /\ \E key \in todo :
          /\ todo' = todo \ {key}
          /\ pkgExternalTypes' = (key :> fileExternalRefs[key]) @@ pkgExternalTypes
    /\ UNCHANGED <<heap, defs, startingTypes, ignoreUnknownTypes, queue, visitedDefs, ret, before, pc, diag, Flatten, out, rhs, fileExternalRefs, report, fetched, parsed>>

\* mergeExternalRefs, lines 57-64: one iteration, for a key of rhs in map order
MergeExternalRefsEntry ==
    /\ pc = "mergingRefs"
    /\ \E key \in todo :
          /\ todo' = todo \ {key}
          /\ IF key \notin DOMAIN pkgExternalTypes
             THEN pkgExternalTypes' = (key :> fileExternalRefs[key]) @@ pkgExternalTypes
             ELSE pkgExternalTypes' = [pkgExternalTypes EXCEPT ![key] = @ \o fileExternalRefs[key]]
    /\ UNCHANGED <<heap, defs, startingTypes, ignoreUnknownTypes, queue, visitedDefs, ret, before, pc, diag, Flatten, out, rhs, fileExternalRefs, report, fetched, parsed>>

\* mergeExternalRefs, line 65: every key of rhs was visited
MergeExternalRefsReturn ==
    /\ pc = "mergingRefs"
    /\ todo = {}
    /\ pc' = "mergedRefs"
    /\ UNCHANGED <<heap, defs, startingTypes, ignoreUnknownTypes, queue, visitedDefs, ret, todo, before, diag, Flatten, out, rhs, pkgExternalTypes, fileExternalRefs, report, fetched, parsed>>

\* the external references two files record for a name: none, one, or several,
\* the same reference twice among them
FileRefs(file, n) ==
    LET foo == TypeReference("Foo", "example.com/pkg")
        bar == TypeReference("Bar", "example.com/pkg")
        baz == TypeReference("Baz", "example.com/other")
    IN IF file = "a"
       THEN (IF n = "Person" THEN <<foo>> ELSE IF n = "Address" THEN <<>> ELSE <<foo, bar>>)
       ELSE (IF n = "Person" THEN <<bar, foo>> ELSE IF n = "Address" THEN <<baz>> ELSE <<>>)

\* a map that has, for each name, no entry, the list of file a or that of file b
PartialRefs ==
    {[n \in {m \in Names : c[m] # ""} |-> FileRefs(c[n], n)] : c \in [Names -> {"", "a", "b"}]}

InitMergeExternalRefs ==
    /\ heap = <<>>
    /\ defs = EmptyMap
    /\ startingTypes = {}
    /\ ignoreUnknownTypes = TRUE
    /\ queue = <<>>
    /\ visitedDefs = {}
    /\ ret = "deletePkg"
    /\ todo = {}
    /\ pkgExternalTypes \in PartialRefs
    /\ fileExternalRefs \in PartialRefs
    /\ before = [heap |-> heap, defs |-> defs, refs |-> pkgExternalTypes]
    /\ Flatten = TRUE
    /\ out = NoOutput
    /\ rhs = EmptyMap
    /\ report = ""
    /\ fetched = {}
    /\ parsed = defs
    /\ pc = "mergeExternalRefs"
    /\ diag = NoDiag

NextMergeExternalRefs ==
    \/ MergeExternalRefsBegin
    \/ MergeExternalRefsEntry
    \/ MergeExternalRefsReturn

SpecMergeExternalRefs == InitMergeExternalRefs /\ [][NextMergeExternalRefs]_vars

-----------------------------------------------------------------------------
(* Reference edges of a graph, as the specification states them *)

\* the pointers held by the child fields F of definition d
ChildrenVia(d, F) ==
    UNION {IF f \in MapFields THEN {d[f][k] : k \in DOMAIN d[f]}
           ELSE IF f \in ArrayFields THEN {d[f][i] : i \in 1..Len(d[f])}
           ELSE {d[f]} \ {0} : f \in F}

RECURSIVE RefNames(_, _, _)
\* the names referenced by the definition at id or below it through the fields F
RefNames(h, id, F) ==
    (IF h[id].Ref # <<>> THEN {BareName(h[id].Ref)} ELSE {})
    \cup UNION {RefNames(h, c, F) : c \in ChildrenVia(h[id], F)}

RECURSIVE Closure(_, _)
\* the names transitively reachable from the names R over the edges of F
Closure(R, F) ==
    LET next == R \cup UNION {RefNames(heap, defs[n], F) : n \in R \cap DOMAIN defs}
    IN IF next = R THEN R ELSE Closure(next, F)

\* the names with a definition that are reachable from the starting types
Reachable(F) == Closure(startingTypes, F) \cap DOMAIN defs


RECURSIVE NodesFrom(_, _)
\* the definitions reachable from the pointers ids through any child position
NodesFrom(h, ids) ==
    LET next == ids \cup UNION {ChildrenVia(h[id], Positions) : id \in ids}
    IN IF next = ids THEN ids ELSE NodesFrom(h, next)

\* graph g has a cycle made of allOf references only
HasAllOfCycle(g) == \E n \in DOMAIN g.defs : n \in AllOfReach(g, AllOfRefs(g, n))

NoTopLevelAllOf(g) == \A n \in DOMAIN g.defs : g.heap[g.defs[n]].AllOf = <<>>

Now == [heap |-> heap, defs |-> defs]

RECURSIVE Flattened(_, _)
\* what the specification says flattening the definition of n yields in graph g:
\* the properties of the resolved members in member order, a later member
\* replacing an earlier one on a key, and the description of the last member
Flattened(g, n) ==
    LET def == g.heap[g.defs[n]]
        resolved(m) == IF g.heap[m].Ref # <<>> THEN Flattened(g, BareName(g.heap[m].Ref))
                       ELSE [Properties |-> g.heap[m].Properties,
                             Description |-> g.heap[m].Description]
        R == [i \in 1..Len(def.AllOf) |-> resolved(def.AllOf[i])]
        last(k) == CHOOSE i \in 1..Len(R) :
                       /\ k \in DOMAIN R[i].Properties
                       /\ \A j \in (i + 1)..Len(R) : k \notin DOMAIN R[j].Properties
    IN IF def.AllOf = <<>>
       THEN [Properties |-> def.Properties, Description |-> def.Description]
       ELSE [Properties |-> [k \in UNION {DOMAIN R[i].Properties : i \in 1..Len(R)} |->
                                 R[last(k)].Properties[k]],
             Description |-> R[Len(R)].Description]

ClaimedEdges == {"Properties", "Items", "AdditionalItems", "Not", "Media", "AllOf", "AnyOf", "OneOf"}

PruneReturned == pc \in {"delete", "checkDefinitions"} /\ ret = "delete"

\* the child positions the embedder descends into
EmbedPositions == {EmbedOrder[i] : i \in 1..Len(EmbedOrder)}

RECURSIVE NodesVia(_, _, _)
\* the definitions reachable from the pointers ids through the child positions F
NodesVia(h, ids, F) ==
    LET next == ids \cup UNION {ChildrenVia(h[id], F) : id \in ids}
    IN IF next = ids THEN ids ELSE NodesVia(h, next, F)

\* the definitions of graph g below the entries of the starting types, through
\* the positions the embedder descends into
EntryNodes(g) == NodesVia(g.heap, {g.defs[n] : n \in startingTypes \cap DOMAIN g.defs}, EmbedPositions)

\* the name a reference is looked up by in the embedder
EmbedName(ref) == Join(TrimPrefix(ref))

\* the names referenced from the definitions of g below the entries of the
\* starting types, through the positions the embedder descends into
EmbedRefs(g, n) == {EmbedName(g.heap[id].Ref) : id \in {x \in NodesVia(g.heap, {g.defs[n]}, EmbedPositions) : g.heap[x].Ref # <<>>}}

RECURSIVE EmbedReach(_, _)
EmbedReach(g, R) ==
    LET next == R \cup UNION {EmbedRefs(g, n) : n \in R \cap DOMAIN g.defs}
    IN IF next = R THEN R ELSE EmbedReach(g, next)

\* an entry of graph g reaches a cycle of references through embeddable positions
HasEmbedCycle(g) ==
    \E n \in EmbedReach(g, startingTypes) \cap DOMAIN g.defs : n \in EmbedReach(g, EmbedRefs(g, n))

RECURSIVE MetRefs(_, _)
\* the names of the references at or below the definition id that the embedder
\* meets in the definition's own structure: the properties of a definition that
\* has a ref are replaced when the ref is resolved
MetRefs(h, id) ==
    (IF h[id].Ref # <<>> THEN {EmbedName(h[id].Ref)} ELSE {})
    \cup UNION {MetRefs(h, c) : c \in ChildrenVia(h[id], IF h[id].Ref # <<>>
                                                          THEN EmbedPositions \ {"Properties"}
                                                          ELSE EmbedPositions)}

\* the names referenced from within the properties of the definition of n, a
\* definition without a ref of its own
PropertyRefs(g, n) ==
    IF g.heap[g.defs[n]].Ref # <<>> THEN {}
    ELSE UNION {MetRefs(g.heap, c) : c \in Range(g.heap[g.defs[n]].Properties)}

RECURSIVE PropertyReach(_, _)
PropertyReach(g, R) ==
    LET next == R \cup UNION {PropertyRefs(g, n) : n \in R \cap DOMAIN g.defs}
    IN IF next = R THEN R ELSE PropertyReach(g, next)

\* n lies on a cycle of types each referring to the next from within its properties
OnPropertyCycle(g, n) == n \in DOMAIN g.defs /\ n \in PropertyReach(g, PropertyRefs(g, n))

\* the names the embedder resolves or embeds first: the entries and the names
\* referenced in their own structure
EntryMeets(g) ==
    UNION {{e} \cup MetRefs(g.heap, g.defs[e]) : e \in startingTypes \cap DOMAIN g.defs}

-----------------------------------------------------------------------------
(* Claims *)

\* C1 (as stated): the set Prune returns, and the key set left after the caller's
\* deletion, is exactly the set of names reachable from the starting types via
\* ref, properties, items, additionalItems, not, media, allOf, anyOf and oneOf.
C1_Original ==
    PruneReturned =>
        /\ visitedDefs = Reachable(ClaimedEdges)
        /\ pc = "checkDefinitions" => DOMAIN defs = visitedDefs

\* C1 (amended): the set Prune returns, and the key set left after the caller's
\* deletion, is exactly the set of names reachable from the starting types via
\* ref, definitions, properties, items, additionalItems, not, media, allOf,
\* anyOf and oneOf: the nested definitions map is an edge position too.
C1_Reachability ==
    PruneReturned =>
        /\ visitedDefs = Reachable(ClaimedEdges \cup {"Definitions"})
        /\ pc = "checkDefinitions" => DOMAIN defs = visitedDefs

\* C1 witness: Prune returned a set holding a name that is no starting type and
\* the deletion removed an unreachable definition.
C1_Witness ==
    /\ pc = "checkDefinitions"
    /\ visitedDefs \ startingTypes # {}
    /\ \E id \in 1..Len(heap) : heap[id].Ref = <<>> /\ heap[id].Properties = EmptyMap
                                 /\ \A n \in DOMAIN defs : defs[n] # id
                                 /\ \A j \in 1..Len(heap) : id \notin ChildrenVia(heap[j], Positions)

\* C3: when Prune dequeues a name without definition, strict mode aborts with the
\* Unknown type diagnostic naming it and never returns a set; tolerant mode never
\* aborts, leaves the name out of the result and goes on, so Person referring to
\* an absent Address gives exactly {Person}.
C3_UnknownStep ==
    (pc = "bfs" /\ queue # <<>> /\ Head(queue) \notin visitedDefs /\ Head(queue) \notin DOMAIN defs)
    => IF ignoreUnknownTypes
       THEN pc' = "bfs" /\ visitedDefs' = visitedDefs /\ queue' = Tail(queue)
       ELSE pc' = "panic" /\ diag' = <<"Unknown type", Head(queue)>>

C3_State ==
    /\ pc = "panic" => ~ignoreUnknownTypes /\ diag[1] = "Unknown type" /\ diag[2] \notin DOMAIN defs
    /\ (PruneReturned /\ ~ignoreUnknownTypes) =>
           Closure(startingTypes, Positions \ {"AdditionalProperties"}) \subseteq DOMAIN defs
    /\ PruneReturned => visitedDefs \subseteq DOMAIN defs
    /\ (PruneReturned /\ ignoreUnknownTypes /\ startingTypes = {"Person"}
          /\ "Person" \in DOMAIN defs /\ "Address" \notin DOMAIN defs
          /\ RefNames(heap, defs["Person"], Positions) = {"Address"})
       => visitedDefs = {"Person"}

C3_UnknownType == [] C3_State /\ [][C3_UnknownStep]_vars /\ [][pc = "panic" => pc' = "panic"]_vars

\* C3 witness: a tolerant Prune returned {Person} for a Person that refers to the
\* absent Address.
C3_Witness ==
    /\ pc = "delete" /\ ignoreUnknownTypes /\ startingTypes = {"Person"}
    /\ "Person" \in DOMAIN defs /\ "Address" \notin DOMAIN defs
    /\ RefNames(heap, defs["Person"], {"Properties"}) = {"Address"}
    /\ visitedDefs = {"Person"}

CycleAborts(messages) ==
    HasAllOfCycle(before) =>
        /\ pc # "getReachableTypes"
        /\ pc = "flattening" => \E n \in todo : n \in AllOfReach(before, AllOfRefs(before, n))
        /\ pc = "panic" => diag[1] \in messages

\* C4 (as stated): on a graph with a cycle made only of allOf references,
\* flattenAllOf aborts with the cycle diagnostic and returns no flattened graph,
\* whichever entry is flattened first.
C4_Original == CycleAborts({"Cycle detected in definitions"})

\* What every run ensures on a graph with a cycle made only of allOf references:
\* flattenAllOf aborts and returns no flattened graph, whichever entry is flattened
\* first; the abort is the cycle diagnostic, or the nil dereference of an allOf
\* reference to a name without definition when that is met before the cycle closes.
C4_CycleAborts == CycleAborts({"Cycle detected in definitions", "nil pointer dereference"})

\* The cycle diagnostic ended a run that had flattened another entry before it
\* reached the cycle.
C4_Witness ==
    /\ pc = "panic" /\ diag[1] = "Cycle detected in definitions"
    /\ HasAllOfCycle(before)
    /\ Cardinality(todo) + 2 <= Cardinality(DOMAIN defs)

\* C5: a flattened node has the properties of its resolved allOf members in member
\* order, a later member replacing an earlier one on a key collision, and the
\* description of its last member; allOf [X, Y] with X.p string, Y.p number and Y
\* described gives p: number and Y's description.
C5_MergeOrder ==
    \A n \in DOMAIN defs :
        (pc \in {"flattening", "getReachableTypes"} /\ n \notin todo
           /\ before.heap[before.defs[n]].AllOf # <<>>)
        => /\ heap[defs[n]].Properties = Flattened(before, n).Properties
           /\ heap[defs[n]].Description = Flattened(before, n).Description

\* C5 witness: Person = allOf [Address, Car], Address.p a string, Car.p a number,
\* both described, was flattened to p: number with Car's description.
C5_Witness ==
    /\ pc = "getReachableTypes"
    /\ DOMAIN defs = Names
    /\ LET P == before.heap[before.defs["Person"]]
       IN /\ Len(P.AllOf) = 2
          /\ before.heap[P.AllOf[1]].Ref = getDefLink("Address")
          /\ before.heap[P.AllOf[2]].Ref = getDefLink("Car")
    /\ before.heap[before.defs["Address"]].Description = "Address-desc"
    /\ "p" \in DOMAIN before.heap[before.defs["Address"]].Properties
    /\ heap[heap[defs["Person"]].Properties["p"]].Type = "number"
    /\ heap[defs["Person"]].Description = "Car-desc"

\* C6: on a graph none of whose top-level definitions has allOf members,
\* flattenAllOf never aborts and leaves the key set and every definition as they
\* were; a graph flattenAllOf returned is such a graph, so flattening it again
\* changes nothing.
C6_NoOp ==
    /\ NoTopLevelAllOf(before) => pc # "panic" /\ Now = before
    /\ pc = "getReachableTypes" => NoTopLevelAllOf(Now)

\* C6 witness: a second run over a graph that a first run had flattened returned,
\* and the graph is as the first run left it.
C6_Witness ==
    /\ pc = "getReachableTypes"
    /\ Now = before
    /\ \E id \in 1..Len(heap) : heap[id].AllOf # <<>> /\ id \notin NodesFrom(heap, Range(defs))

\* C7: after flattenAllOf returns normally no definition of the graph, top-level
\* or nested in another definition's child positions, has allOf members.
C7_NoAllOfLeft ==
    pc = "getReachableTypes" => \A id \in NodesFrom(heap, Range(defs)) : heap[id].AllOf = <<>>

\* C2: after the final pruning and the strict check of Generate have completed
\* without abort, every ref of every retained node, at any nesting depth and in
\* any structural position (additionalProperties included), resolves to a name
\* that is a key of the graph.
C2_ClosedUnderRefs ==
    pc = "checked" =>
        \A id \in NodesFrom(heap, Range(defs)) :
            heap[id].Ref # <<>> => BareName(heap[id].Ref) \in DOMAIN defs

\* C8: after embedSchema has returned, every definition reachable from the
\* definition of a starting type through any child position has an empty ref.
C8_NoRefLeft ==
    (~Flatten /\ pc \in {"newDefs", "write", "done"}) =>
        \A name \in startingTypes \cap DOMAIN defs :
            \A id \in NodesFrom(heap, {defs[name]}) : heap[id].Ref = <<>>

\* graph g holds the Person of the round trip (name: string, required, and
\* address: a reference to Address) and an Address without any content but,
\* possibly, a type and a description
RoundTripGraph(g) ==
    /\ {"Person", "Address"} \subseteq DOMAIN g.defs
    /\ LET P == g.heap[g.defs["Person"]]
           A == g.heap[g.defs["Address"]]
       IN /\ DOMAIN P.Properties = {"name", "address"}
          /\ P.Required = <<"name">>
          /\ g.heap[P.Properties["name"]] = [Definition EXCEPT !.Type = "string"]
          /\ g.heap[P.Properties["address"]] = [Definition EXCEPT !.Ref = getDefLink("Address")]
          /\ [P EXCEPT !.Properties = EmptyMap, !.Required = <<>>, !.Description = ""] = Definition
          /\ [A EXCEPT !.Type = "", !.Description = ""] = Definition

\* the round trip of C9, the address property of the written Person having type t
RoundTrip(t) ==
    (RoundTripGraph(before) /\ startingTypes = {"Person"}) =>
        /\ pc \notin {"panic", "overflow"}
        /\ pc \in {"delete", "checkDefinitions", "checked"} => visitedDefs = {"Person", "Address"}
        /\ pc = "checkDefinitions" => DOMAIN defs = {"Person", "Address"}
        /\ (out.written /\ ~Flatten) =>
              /\ DOMAIN out.defs = {"Person"}
              /\ LET P == heap[out.defs["Person"]]
                 IN /\ DOMAIN P.Properties = {"name", "address"}
                    /\ heap[P.Properties["name"]].Type = "string"
                    /\ heap[P.Properties["address"]] = [Definition EXCEPT !.Type = t]

\* C9 (as stated): for Person = {properties: {name: string (required), address:
\* ref(Address)}} and Address an empty object definition, pruning from {Person}
\* yields exactly {Person, Address}, and embedding yields an output with the
\* single definition Person whose address property has type object, no
\* properties and no ref.
C9_Original == RoundTrip("object")

\* C9 (amended): for Person = {properties: {name: string (required), address:
\* ref(Address)}} and Address an empty definition, pruning from {Person} yields
\* exactly {Person, Address}, and embedding yields an output with the single
\* definition Person whose address property has no properties, no ref and the
\* type of Address: none for the empty struct of the README example, object when
\* Address has type object.
C9_RoundTrip == RoundTrip(before.heap[before.defs["Address"]].Type)

\* C9 witness: the embedded output of the round trip was written for the Address
\* of the README example, the empty struct, and the address property has no type.
C9_Witness ==
    /\ out.written /\ ~Flatten
    /\ RoundTripGraph(before) /\ startingTypes = {"Person"}
    /\ before.heap[before.defs["Address"]].Type = ""
    /\ DOMAIN out.defs = {"Person"}
    /\ heap[heap[out.defs["Person"]].Properties["address"]] = Definition

\* C10: mergeDefs(lhs, rhs) leaves in lhs the union of the two name sets: a name
\* lhs had keeps the definition it had, a name only rhs has is added with the
\* definition of rhs, rhs and the definitions are not modified, and a collision
\* never aborts the merge.
C10_State ==
    /\ pc # "panic"
    /\ \A key \in DOMAIN before.defs : key \in DOMAIN defs /\ defs[key] = before.defs[key]
    /\ DOMAIN defs \subseteq DOMAIN before.defs \cup (DOMAIN rhs \ todo)
    /\ pc = "merged" =>
          /\ DOMAIN defs = DOMAIN before.defs \cup DOMAIN rhs
          /\ \A key \in DOMAIN rhs \ DOMAIN before.defs : defs[key] = rhs[key]

C10_FirstWins == [] C10_State /\ [][rhs' = rhs /\ heap' = heap]_vars

\* C10 witness: a merge returned after it had met a name that both maps define
\* differently and had added a name that only rhs defines.
C10_Witness ==
    /\ pc = "merged"
    /\ \E key \in DOMAIN rhs \cap DOMAIN before.defs : rhs[key] # before.defs[key]
    /\ DOMAIN rhs \ DOMAIN before.defs # {}

\* C11: mergeExternalRefs(lhs, rhs) accumulates: the list of a name both maps
\* have is the list lhs had followed by the list of rhs, nothing dropped or
\* overwritten; a name only one map has keeps that map's list.
C11_State ==
    pc \in {"mergingRefs", "mergedRefs"} =>
        /\ DOMAIN pkgExternalTypes = DOMAIN before.refs \cup (DOMAIN fileExternalRefs \ todo)
        /\ \A key \in DOMAIN pkgExternalTypes :
              pkgExternalTypes[key] =
                  IF key \in DOMAIN before.refs /\ key \in DOMAIN fileExternalRefs \ todo
                  THEN before.refs[key] \o fileExternalRefs[key]
                  ELSE IF key \in DOMAIN before.refs THEN before.refs[key]
                  ELSE fileExternalRefs[key]

C11_Accumulates == [] C11_State /\ [][fileExternalRefs' = fileExternalRefs]_vars

\* C11 witness: a merge returned with a name whose list is the two non-empty
\* lists one after the other, and with a name only rhs had.
C11_Witness ==
    /\ pc = "mergedRefs"
    /\ \E key \in DOMAIN before.refs \cap DOMAIN fileExternalRefs :
          /\ before.refs[key] # <<>> /\ fileExternalRefs[key] # <<>>
          /\ Len(pkgExternalTypes[key]) = Len(before.refs[key]) + Len(fileExternalRefs[key])
    /\ DOMAIN fileExternalRefs \ DOMAIN before.refs # {}

\* C12: a ref the embedder meets whose target is no key of the graph ends the run
\* with the can't-find-the-definition diagnostic naming it; there is no tolerant
\* mode: when embedSchema returns, every ref it could meet below an entry had a
\* target and was resolved, none was skipped or left in place.
C12_EmbedAborts ==
    /\ pc = "panic" =>
          /\ diag[1] = "can't find the definition of"
          /\ diag[2] \notin DOMAIN defs
          /\ \E id \in 1..Len(before.heap) : before.heap[id].Ref = getDefLink(diag[2])
    /\ pc = "newDefs" =>
          /\ \A id \in EntryNodes(Now) : heap[id].Ref = <<>>
          /\ \A id \in EntryNodes(before) :
                before.heap[id].Ref # <<>> => Found(defs, TrimPrefix(before.heap[id].Ref))

\* C12 witness: the embedder ended the run on the reference of an entry to
\* Address, which has no definition, after it had embedded another entry.
C12_Witness ==
    /\ pc = "panic"
    /\ diag = <<"can't find the definition of", "Address">>
    /\ "Address" \notin DOMAIN defs
    /\ startingTypes = {"Person", "Car"} /\ todo = {}

RECURSIVE ClosureIn(_, _, _)
\* the names with a definition in the name map d that are reachable from the
\* names R over the positions F
ClosureIn(d, R, F) ==
    LET next == (R \cup UNION {RefNames(heap, d[n], F) : n \in R \cap DOMAIN d}) \cap DOMAIN d
    IN IF next = R \cap DOMAIN d THEN next ELSE ClosureIn(d, next, F)

\* the output of Generate by mode, the referenced output holding exactly the
\* names reachable from the starting types over the positions F: in the graph
\* made of the retained definitions and, for a deleted name, the definition the
\* package gave it
OutputModes(F) ==
    out.written =>
        /\ out.defs = defs
        /\ ~Flatten => DOMAIN out.defs = startingTypes
        /\ Flatten => DOMAIN out.defs = ClosureIn(defs @@ parsed, startingTypes, F)

\* C13: with Flatten = false the output definitions map has exactly the entry
\* names as keys; with Flatten = true it is the full pruned graph, exactly the
\* names reachable from the entry names over the references of any position,
\* with the references left in place.
C13_OutputModes == OutputModes(Positions)

\* What every run ensures: the referenced output holds exactly the names
\* reachable over the positions the pruner follows.
C13_PrunedPositions == OutputModes(Positions \ {"AdditionalProperties"})

\* C14: there is no partial output: when a fatal condition ends a run of Generate
\* in any stage, the output file was neither created nor written; the file is
\* written in the last step of a run that met no fatal condition, and a run that
\* met one takes no further step.
C14_State ==
    /\ pc \in {"panic", "overflow"} => out = NoOutput
    /\ out.written => pc = "done" /\ diag = NoDiag

C14_NoPartialOutput ==
    /\ [] C14_State
    /\ [][pc \notin {"panic", "overflow"}]_vars
    /\ [][out' # out => pc = "write" /\ pc' = "done"]_vars

\* C14 witness: the strict check ended a run with the unknown-type diagnostic
\* after flattening and pruning had completed, and nothing was written.
C14_Witness ==
    /\ pc = "panic" /\ ret = "checked"
    /\ diag[1] = "Unknown type"
    /\ out = NoOutput

\* C15: Prune is a pure traversal: in both modes, whether it returns or aborts,
\* the key set of the graph, every definition and the entry set are as they were
\* when it was called; what it yields is the returned set of names.
C15_State ==
    pc \in {"Prune", "bfs", "delete", "panic"} => heap = before.heap /\ defs = before.defs

C15_PruneFrame ==
    /\ [] C15_State
    /\ [][startingTypes' = startingTypes]_vars
    /\ [][(pc \in {"Prune", "bfs"}) => (heap' = heap /\ defs' = defs)]_vars

\* C15 witness: Prune returned a set that leaves out a definition of the graph,
\* and the graph still holds that definition.
C15_Witness ==
    /\ pc = "delete"
    /\ DOMAIN defs \ visitedDefs # {}
    /\ visitedDefs # {}
    /\ heap = before.heap /\ defs = before.defs

\* C16 (as stated): the embedder has no cycle guard: when an entry reaches a
\* reference cycle through embeddable positions, embedDefinition recurses forever
\* and embedSchema never returns.
C16_Original == HasEmbedCycle(before) => pc # "newDefs"

\* C16 (amended): the embedder has no cycle guard: when an entry is, or refers
\* in its own structure to, a type on a cycle of types each of which refers to
\* the next from within its properties, embedDefinition recurses forever and
\* embedSchema never returns; a cycle that closes through another position of a
\* referenced type (the items of an array type) ends, because resolving a ref
\* copies only the properties and the type of its target.
C16_NoCycleGuard ==
    /\ (\E n \in EntryMeets(before) : OnPropertyCycle(before, n)) => pc # "newDefs"
    /\ pc = "overflow" => HasEmbedCycle(before)

\* C16 witness: the recursion over Person and Address, whose properties refer to
\* each other, exhausted the stack.
C16_Witness ==
    /\ pc = "overflow"
    /\ startingTypes = {"Person"}
    /\ {"Person", "Address"} \subseteq DOMAIN before.defs
    /\ "Address" \in PropertyRefs(before, "Person")
    /\ "Person" \in PropertyRefs(before, "Address")

\* C17: checkDefinitions compares the number of definitions it is given with the
\* number of names strictly reachable from the starting types: it reports a
\* failed type check whenever the two differ and PASSED only when they are equal.
C17_CountsCompared ==
    [][report' # report =>
           /\ report' \in {"Type checking PASSED", "Type checking failed"}
           /\ report' = "Type checking PASSED" <=> Cardinality(DOMAIN defs) = Cardinality(visitedDefs)]_vars

\* the definitions of the package under parse that are still in the map
C18_Kept == DOMAIN defs \cap DOMAIN parsed

\* after the deletion both maps hold only names reachable from the requested types
C18_Retained ==
    pc \in {"childPackages", "flattenAllOf"} =>
        /\ C18_Kept \subseteq ClosureIn(parsed, startingTypes, Positions)
        /\ DOMAIN pkgExternalTypes \subseteq ClosureIn(parsed, startingTypes, Positions)

\* every type a package was resolved for is referenced in a retained definition
C18_Referenced ==
    \A f \in fetched : \A t \in f.Types :
        \E n \in C18_Kept : getFullName(t, f.PackageName) \in RefNames(heap, defs[n], Positions)

\* C18: in parseTypesInPackage, after the tolerant prune, the definitions map
\* and the external-reference map contain only names reachable from the
\* requested types, and a foreign package is resolved only if a retained
\* definition contains a reference to a type of it, and only for those types.
C18_OnlyRelevant == C18_Retained /\ C18_Referenced

RECURSIVE LiteralRefs(_, _)
\* the names the allOf members of the definition at id refer to, the members of
\* its literal members included
LiteralRefs(g, id) ==
    UNION {IF g.heap[m].Ref # <<>> THEN {BareName(g.heap[m].Ref)} ELSE LiteralRefs(g, m) :
               m \in Range(g.heap[id].AllOf)}

RECURSIVE LiteralReach(_, _)
LiteralReach(g, R) ==
    LET next == R \cup UNION {LiteralRefs(g, g.defs[n]) : n \in R \cap DOMAIN g.defs}
    IN IF next = R THEN R ELSE LiteralReach(g, next)

\* the compositions met from n, through references and literal members, all
\* have a definition and none of them is met again below itself
LiteralWellFounded(g, n) ==
    \A m \in LiteralReach(g, {n}) :
        m \in DOMAIN g.defs /\ m \notin LiteralReach(g, LiteralRefs(g, g.defs[m]))

RECURSIVE FlattenedAt(_, _)
\* Flattened, with every member flattened before it is merged: a literal member
\* that has allOf members contributes what a referenced definition with the
\* same members contributes
FlattenedAt(g, id) ==
    LET def == g.heap[id]
        resolved(m) == IF g.heap[m].Ref # <<>>
                       THEN FlattenedAt(g, g.defs[BareName(g.heap[m].Ref)])
                       ELSE FlattenedAt(g, m)
        R == [i \in 1..Len(def.AllOf) |-> resolved(def.AllOf[i])]
        last(k) == CHOOSE i \in 1..Len(R) :
                       /\ k \in DOMAIN R[i].Properties
                       /\ \A j \in (i + 1)..Len(R) : k \notin DOMAIN R[j].Properties
    IN IF def.AllOf = <<>>
       THEN [Properties |-> def.Properties, Description |-> def.Description]
       ELSE [Properties |-> [k \in UNION {DOMAIN R[i].Properties : i \in 1..Len(R)} |->
                                 R[last(k)].Properties[k]],
             Description |-> R[Len(R)].Description]

C19_RefsFlattened ==
    \A n \in DOMAIN defs :
        (pc \in {"flattening", "getReachableTypes"} /\ n \notin todo
           /\ before.heap[before.defs[n]].AllOf # <<>> /\ LiteralWellFounded(before, n)
           /\ \A m \in LiteralReach(before, {n}) :
                  \A x \in Range(before.heap[before.defs[m]].AllOf) : before.heap[x].AllOf = <<>>)
        => /\ heap[defs[n]].Properties = FlattenedAt(before, before.defs[n]).Properties
           /\ heap[defs[n]].Description = FlattenedAt(before, before.defs[n]).Description

\* every allOf reference met from the names of graph g has a definition
AllOfResolved(g) == AllOfReach(g, DOMAIN g.defs) \subseteq DOMAIN g.defs

OnRefCycle ==
    {n \in DOMAIN defs :
         \E m \in RefNames(heap, defs[n], Positions) : n \in ClosureIn(defs, {m}, Positions)}

\* C21: the breadth-first search of the pruner terminates on every finite
\* graph, cyclic ones included: Prune leaves its loop, by returning or by the
\* abort of the strict mode.
C21_PruneTerminates == <>(pc \notin {"Prune", "bfs"})

\* C21 witness: Prune returned on a graph where the entry Person lies on a
\* reference cycle, and the names on the cycle were visited.
C21_Witness ==
    /\ pc = "delete"
    /\ "Person" \in startingTypes
    /\ "Person" \in OnRefCycle
    /\ Cardinality(OnRefCycle \cap visitedDefs) >= 2

\* the stage of Generate a position belongs to: 1 parsing and merging, 2
\* flattening, 3 final pruning, 4 strict check, 5 embedding, 6 output, 7 end
StageOf(p, r) ==
    IF p \in {"parseTypesInPackage", "deletePkg", "childPackages"} THEN 1
    ELSE IF p \in {"Prune", "bfs"} THEN (IF r = "deletePkg" THEN 1 ELSE IF r = "delete" THEN 3 ELSE 4)
    ELSE IF p \in {"flattenAllOf", "flattening"} THEN 2
    ELSE IF p \in {"getReachableTypes", "delete"} THEN 3
    ELSE IF p \in {"checkDefinitions", "checked"} THEN 4
    ELSE IF p \in {"embedSchema", "embedding", "newDefs"} THEN 5
    ELSE IF p = "write" THEN 6
    ELSE 7

\* a step stays in its stage, moves to the next one, passes from the strict
\* check to the output where nothing is embedded, or aborts
C22_Step ==
    \/ pc' \in {"panic", "overflow"}
    \/ StageOf(pc', ret') = StageOf(pc, ret)
    \/ StageOf(pc', ret') = StageOf(pc, ret) + 1
    \/ Flatten /\ StageOf(pc, ret) = 4 /\ StageOf(pc', ret') = 6

\* C22: Generate runs its stages in a fixed order: merging, flattening, final
\* pruning, strict check, embedding, output; the output is written only in the
\* last stage, and embedding runs on a graph that was flattened and pruned.
C22_StageOrder ==
    /\ [][C22_Step]_vars
    /\ [][out' # out => StageOf(pc, ret) = 6 /\ pc' = "done"]_vars
    /\ [](pc \in {"embedSchema", "embedding"} =>
             /\ NoTopLevelAllOf(Now)
             /\ DOMAIN defs = visitedDefs
             /\ report = "Type checking PASSED")

\* C22 witness: a run of Generate that merged the definitions of a foreign
\* package, embedded and wrote its output.
C22_Witness ==
    /\ pc = "done"
    /\ out.written
    /\ ~Flatten
    /\ fetched # {}
    /\ report = "Type checking PASSED"

\* the definition at id had a reference when embedSchema began and has none now
C23_Resolved(id) == before.heap[id].Ref # <<>> /\ heap[id].Ref = <<>>

\* C23: resolving a reference sets the type and the properties of the node to
\* those of the target, as they are when the reference is resolved, and clears
\* the reference; nothing else changes: every other field of the node keeps
\* its value, no other field of the target is copied, and a definition without
\* reference keeps all its fields.
C23_EmbedFrame ==
    pc \in {"embedding", "newDefs"} =>
        /\ Len(heap) = Len(before.heap)
        /\ \A id \in 1..Len(heap) :
              LET old == before.heap[id]
                  target == before.defs[TrimPrefix(old.Ref)[1]]
              IN /\ [heap[id] EXCEPT !.Properties = old.Properties, !.Type = old.Type, !.Ref = old.Ref] = old
                 /\ ~C23_Resolved(id) => heap[id] = old
                 /\ C23_Resolved(id) =>
                       /\ heap[id].Properties \in {before.heap[target].Properties, heap[target].Properties}
                       /\ heap[id].Type \in {before.heap[target].Type, heap[target].Type}

\* C23 witness: a reference with a description of its own was resolved to a
\* target that has required names, a description and properties.
C23_Witness ==
    /\ pc = "newDefs"
    /\ \E id \in 1..Len(heap) :
          /\ C23_Resolved(id)
          /\ heap[id].Description # ""
          /\ LET target == before.heap[before.defs[TrimPrefix(before.heap[id].Ref)[1]]]
             IN /\ target.Required # <<>>
                /\ target.Description \notin {"", heap[id].Description}
                /\ target.Properties # EmptyMap
                /\ heap[id].Properties = target.Properties

\* the aborts of the pruner and of the embedder name the name without definition
C24_MissingNamed ==
    (pc = "panic" /\ diag[1] \in {"Unknown type", "can't find the definition of"})
    => diag[2] # "" /\ diag[2] \notin DOMAIN defs

\* the abort of the flattener names a name on an allOf cycle
C24_CycleNamed ==
    (pc = "panic" /\ diag[1] = "Cycle detected in definitions")
    => /\ diag[2] \in DOMAIN before.defs
       /\ diag[2] \in AllOfReach(before, AllOfRefs(before, diag[2]))

\* C24: every fatal abort carries a diagnostic that identifies the offending
\* type name: the cycle abort of the flattener names the node on the cycle, the
\* unknown-type abort of the pruner and the abort of the embedder name the
\* missing name.
C24_Diagnostic == C24_MissingNamed /\ C24_CycleNamed

RECURSIVE TermOf(_, _)
\* the definition at id with its children in place of the pointers to them
TermOf(h, id) ==
    LET d == h[id]
        one(f) == IF d[f] = 0 THEN <<>> ELSE <<TermOf(h, d[f])>>
        map(f) == [k \in DOMAIN d[f] |-> TermOf(h, d[f][k])]
    IN [Ref |-> d.Ref, Type |-> d.Type, Description |-> d.Description, Required |-> d.Required,
        Definitions |-> map("Definitions"), Properties |-> map("Properties"),
        AllOf |-> map("AllOf"), AnyOf |-> map("AnyOf"), OneOf |-> map("OneOf"),
        AdditionalItems |-> one("AdditionalItems"), Items |-> one("Items"), Not |-> one("Not"),
        Media |-> one("Media"), AdditionalProperties |-> one("AdditionalProperties")]

\* C25: resolving a package from several call sites and merging the results
\* gives the definitions that one call for the union of the requested types
\* gives, and merging a definitions map with a copy of itself changes nothing.
C25_ResolveMerge ==
    /\ pc \in {"resolved", "merged"} =>
          /\ DOMAIN defs = DOMAIN rhs
          /\ \A n \in DOMAIN defs : TermOf(heap, defs[n]) = TermOf(heap, rhs[n])
    /\ pc = "merged" => Now = before

\* C25 witness: two call sites asked for different types, one of them for a
\* type that refers to another, and the merged definitions were merged with
\* their copy.
C25_Witness ==
    /\ pc = "merged"
    /\ \E f1 \in fetched, f2 \in fetched :
          /\ f1.Types \ f2.Types # {}
          /\ f2.Types \ f1.Types # {}
          /\ "Foo" \in f1.Types
          /\ "Bar" \notin f1.Types \cup f2.Types
    /\ Cardinality(DOMAIN defs) = 3

\* embedSchema aborted on a reference without definition
CantFind == pc = "panic" /\ diag[1] = "can't find the definition of"

\* every reference of graph g is defPrefix followed by a name
PrefixedRefs(g) ==
    \A id \in NodesFrom(g.heap, Range(g.defs)) :
        g.heap[id].Ref # <<>> => g.heap[id].Ref = getDefLink(getNameFromURL(g.heap[id].Ref))

C27_AggregateFields ==
    \A n \in DOMAIN defs :
        (pc \in {"flattening", "getReachableTypes"} /\ n \notin todo
           /\ before.heap[before.defs[n]].AllOf # <<>>)
        => [heap[defs[n]] EXCEPT !.Properties = EmptyMap, !.Description = ""] = Definition

\* C27 witness: Person had a type and required names and was composed of
\* Address, which has a type and required names; the flattened Person has
\* Address's property and neither type nor required names.
C27_Witness ==
    /\ pc = "getReachableTypes"
    /\ {"Person", "Address"} \subseteq DOMAIN defs
    /\ LET P == before.heap[before.defs["Person"]]
           A == before.heap[before.defs["Address"]]
       IN /\ Len(P.AllOf) = 1
          /\ before.heap[P.AllOf[1]].Ref = getDefLink("Address")
          /\ P.Type = "object" /\ P.Required # <<>>
          /\ A.Type = "object" /\ A.Required # <<>>
    /\ "p" \in DOMAIN heap[defs["Person"]].Properties
    /\ heap[defs["Person"]].Type = ""
    /\ heap[defs["Person"]].Required = <<>>

\* flattenAllOf returned, and every name has the properties and the description
\* that the graph it started from determines
C28_SameResult ==
    pc = "getReachableTypes" =>
        /\ ~HasAllOfCycle(before)
        /\ \A n \in DOMAIN defs :
              /\ heap[defs[n]].Properties = Flattened(before, n).Properties
              /\ heap[defs[n]].Description = Flattened(before, n).Description

\* where every allOf reference has a definition the outcome is the same in
\* every visiting order: the cycle abort on a graph with an allOf cycle, the
\* flattened graph otherwise
C28_ResolvedGraphs ==
    AllOfResolved(before) =>
        /\ C28_SameResult
        /\ pc = "panic" => diag[1] = "Cycle detected in definitions" /\ HasAllOfCycle(before)

\* C28: the outcome of flattenAllOf does not depend on the order in which the
\* entries are visited: on a graph with an allOf cycle every order aborts with
\* the cycle diagnostic, on any other graph every order returns, and every name
\* has the properties and the description the graph determines.
C28_OrderIndependent ==
    /\ C28_SameResult
    /\ pc = "panic" => diag[1] = "Cycle detected in definitions" /\ HasAllOfCycle(before)

\* C29: embedSchema terminates on every graph in which no reference cycle is
\* reachable from an entry name through the positions the embedder follows: it
\* returns, or aborts on a reference without definition, and does not exhaust
\* the stack; a target referenced from several places is no obstacle.
C29_EmbedTerminates ==
    ~HasEmbedCycle(Now) => (<>(pc \in {"newDefs", "panic"}) /\ [](pc # "overflow"))

\* C29 witness: embedSchema returned on a graph without reference cycle after it
\* resolved two references to one target, which now share its properties.
C29_Witness ==
    /\ pc = "newDefs"
    /\ ~HasEmbedCycle(before)
    /\ \E a, b \in 1..Len(heap) :
          /\ a # b
          /\ before.heap[a].Ref # <<>> /\ before.heap[a].Ref = before.heap[b].Ref
          /\ heap[a].Ref = <<>> /\ heap[b].Ref = <<>>
          /\ heap[a].Properties # EmptyMap
          /\ heap[a].Properties = heap[b].Properties

\* the names without definition the allOf members of the definition of n refer to
DanglingAllOf(n) == AllOfRefs(Now, n) \ DOMAIN defs

\* the step flattens an entry with an allOf reference to a name without definition
C30_FlattensDangling ==
    /\ pc = "flattening"
    /\ todo' # todo
    /\ \E n \in todo \ todo' : DanglingAllOf(n) # {}

\* C30 as stated: flattening a node with an allOf reference to a name without
\* definition always ends in the dereference of the absent target.
C30_Original ==
    [][C30_FlattensDangling =>
          /\ pc' = "panic" /\ diag'[1] = "nil pointer dereference"
          /\ heap' = heap /\ defs' = defs]_vars

\* C30: flattening a node one of whose allOf members refers to a name without
\* definition aborts the whole flatten and stores nothing: the member is not
\* skipped, and the abort is the dereference of the absent target unless the
\* graph has an allOf cycle, where the cycle diagnostic may come first.
C30_DanglingAborts ==
    [][C30_FlattensDangling =>
          /\ pc' = "panic"
          /\ \/ diag'[1] = "nil pointer dereference"
             \/ diag'[1] = "Cycle detected in definitions" /\ HasAllOfCycle(Now)
          /\ heap' = heap /\ defs' = defs]_vars

\* C30 witness: the tolerant pruning of the package passed over the name, and
\* the flatten died on the dereference of its absent definition.
C30_Witness ==
    /\ pc = "panic"
    /\ diag[1] = "nil pointer dereference"
    /\ ignoreUnknownTypes
    /\ visitedDefs # {}
    /\ \E n \in visitedDefs \cap DOMAIN defs : DanglingAllOf(n) # {}
    /\ ~HasAllOfCycle(Now)


====
